---- MODULE Spec2Model ----
(***************************************************************************)
(* Model of the investment-advisor workflow: the SQLite-backed overview    *)
(* cache (backend/app/cache.py), the five-node LangGraph workflow and its  *)
(* guardrail (backend/app/workflow_agent.py), the state schema             *)
(* (backend/app/models.py) and the response shaping of the HTTP handler    *)
(* (backend/app/main.py).                                                  *)
(*                                                                         *)
(* Text is a sequence of one-character strings, a JSON document is a       *)
(* function from field names to text, an optional value is a set with at   *)
(* most one element, and time is counted in whole days.                    *)
(***************************************************************************)
EXTENDS Integers, Sequences, FiniteSets, TLC

VARIABLES
    table,      \* rows of the overview_cache table (the SQLite file)
    now,        \* datetime.now(), in days
    cpc,        \* per cache client: position inside OverviewCache.get
    ops,        \* number of cache operations started by the clients
    last,       \* history: the cache operation that completed most recently
    written,    \* history: per ticker, the latest set not yet deleted
    rstate,     \* per run: the AdvisorState values of the graph
    node,       \* per run: the status of each graph node
    tasks,      \* per run: the nodes of the current superstep
    pending,    \* per run: what the finished nodes of the superstep returned
    ov,         \* per run: position and locals of get_overview_indicators
    outcome,    \* per run: how ainvoke ended and what it returned
    nextTrace,  \* the next trace id the tracer hands out
    audit,      \* the guardrail records the observability sink holds
    hist,       \* history per run: completion order, recommendation, verdict
    gstate,     \* the state a single guardrail evaluation is given
    gout,       \* what that guardrail evaluation returned
    http        \* the request generate_strategy handled last and its answer

cacheVars == <<table, now, cpc, ops, last, written>>
runVars == <<rstate, node, tasks, pending, ov, outcome, nextTrace, audit, hist>>
guardVars == <<gstate, gout>>
httpVars == <<http>>
vars == <<cacheVars, runVars, guardVars, httpVars>>

(***************************************************************************)
(* Bounds of the model.                                                    *)
(***************************************************************************)
MaxTime == 15
MaxOps == 3
MaxRuns == 2
MaxBeta == 25

(***************************************************************************)
(* Text, ticker symbols and str.upper().                                   *)
(***************************************************************************)
\* str.upper() on one character.
UpperChar(c) ==
    CASE c = "k" -> "K"
      [] c = "o" -> "O"
      [] c = "n" -> "N"
      [] OTHER -> c

\* str.upper(): every character is mapped, the length is kept.
upper(s) == [i \in DOMAIN s |-> UpperChar(s[i])]

\* The ticker strings the callers pass to the cache.
Tickers == { <<"k", "o">>, <<"K", "O">>, <<"n">>, << >> }

\* The letter a character stands for, whatever its case.
Letter(c) ==
    CASE c \in {"k", "K"} -> 1
      [] c \in {"o", "O"} -> 2
      [] c \in {"n", "N"} -> 3
      [] OTHER -> 0

\* Two strings that differ at most in letter case.
SameTicker(a, b) ==
    /\ Len(a) = Len(b)
    /\ \A i \in DOMAIN a : Letter(a[i]) = Letter(b[i])

(***************************************************************************)
(* JSON documents: the COMPANY_OVERVIEW payload.                           *)
(***************************************************************************)
FieldOrder ==
    << "Description", "MarketCapitalization", "PERatio", "PEGRatio",
       "BookValue", "DividendYield", "DividendPerShare", "EPS", "Beta",
       "Sector", "Industry" >>

OverviewDoc(beta) ==
    [ Description |-> <<"d">>, MarketCapitalization |-> <<"9">>,
      PERatio |-> <<"N", "o", "n", "e">>, PEGRatio |-> <<"1", ".", "2">>,
      BookValue |-> <<"3", ".", "0">>, DividendYield |-> <<"0", ".", "1">>,
      DividendPerShare |-> <<"-">>, EPS |-> <<"2", ".", "5">>,
      Beta |-> beta, Sector |-> <<"s">>, Industry |-> <<"i">> ]

DocLowBeta == OverviewDoc(<<"0", ".", "6">>)
DocHighBeta == OverviewDoc(<<"1", ".", "7">>)

\* The payloads the fundamentals provider returns and the cache stores.
Docs == { DocLowBeta, DocHighBeta }

\* json.dumps: the members of the document, one after the other, as text.
json_dumps(d) ==
    LET present == SelectSeq(FieldOrder, LAMBDA f : f \in DOMAIN d)
    IN  [i \in DOMAIN present |-> <<present[i], d[present[i]]>>]

\* json.loads: the document whose members the text lists.
json_loads(t) ==
    [f \in {t[i][1] : i \in DOMAIN t} |->
        (CHOOSE p \in {t[i] : i \in DOMAIN t} : p[1] = f)[2]]

(***************************************************************************)
(* Timestamps: datetime.isoformat() and datetime.fromisoformat().          *)
(***************************************************************************)
\* isoformat(): zero-padded decimal digits, most significant first.
isoformat(t) == << t \div 10, t % 10 >>

\* fromisoformat(): the time the digits denote.
fromisoformat(s) == s[1] * 10 + s[2]

\* Default ttl_days of OverviewCache, and what WorkflowAgent passes.
ttl_days == 7

(***************************************************************************)
(* OverviewCache: the statements it runs against the table.                *)
(***************************************************************************)
\* Variant of the statement that keeps the row already stored under the key
\* (INSERT OR IGNORE).
InsertOrIgnore(tbl, row) ==
    IF \E r \in tbl : r.ticker_symbol = row.ticker_symbol THEN tbl
    ELSE tbl \cup {row}

\* INSERT OR REPLACE with PRIMARY KEY ticker_symbol: the row that conflicts
\* on the key is removed, then the new row is inserted.
InsertOrReplace(tbl, row) ==
    {r \in tbl : r.ticker_symbol # row.ticker_symbol} \cup {row}

\* Variant of set that stores the key as given.
set_no_upper(tbl, ticker_symbol, data, t) ==
    InsertOrReplace(tbl, [ticker_symbol |-> ticker_symbol,
                          data |-> json_dumps(data),
                          cached_at |-> isoformat(t)])

\* OverviewCache.set at time t.
set(tbl, ticker_symbol, data, t) ==
    InsertOrReplace(tbl, [ticker_symbol |-> upper(ticker_symbol),
                          data |-> json_dumps(data),
                          cached_at |-> isoformat(t)])

\* Variant of the SELECT that looks the key up as given.
get_select_no_upper(tbl, ticker_symbol) ==
    {r \in tbl : r.ticker_symbol = ticker_symbol}

\* OverviewCache.get, the SELECT and fetchone(): the row of the key, if any.
get_select(tbl, ticker_symbol) ==
    {r \in tbl : r.ticker_symbol = upper(ticker_symbol)}

\* Variant of the expiry test that expires an entry at age TTL already.
get_expired_at_ttl(row, t) ==
    t - fromisoformat(row.cached_at) >= ttl_days

\* OverviewCache.get, the expiry test on the fetched row at time t.
get_expired(row, t) ==
    t - fromisoformat(row.cached_at) > ttl_days

\* Variant of get that leaves the expired entry in the table.
get_delete_keep(tbl, ticker_symbol) == tbl

\* OverviewCache.get, the DELETE of an expired entry.
get_delete(tbl, ticker_symbol) ==
    {r \in tbl : r.ticker_symbol # upper(ticker_symbol)}

\* Variant of get that renews the timestamp of the entry it returns.
get_hit_touch(tbl, ticker_symbol, t) ==
    {IF r.ticker_symbol = upper(ticker_symbol)
     THEN [r EXCEPT !.cached_at = isoformat(t)] ELSE r : r \in tbl}

\* OverviewCache.get on an entry that is not expired: no statement is
\* executed after the SELECT.
get_hit(tbl, ticker_symbol, t) == tbl

\* OverviewCache.get, the value returned for the fetched row at time t.
get_result(rows, t) ==
    {json_loads(r.data) : r \in {x \in rows : ~get_expired(x, t)}}

\* The argument left out: None.
None == {}

\* OverviewCache.clear with the Optional[str] argument as a set, None or
\* {text}: `if ticker_symbol:` is false for None and for the empty string,
\* and the else branch deletes every row.
clear(tbl, ticker_symbol) ==
    IF \E t \in ticker_symbol : t # << >>
    THEN {r \in tbl : \A t \in ticker_symbol : r.ticker_symbol # upper(t)}
    ELSE {}

\* Text comparison of SQLite (memcmp): the first differing position decides.
TextLess(a, b) ==
    \E i \in DOMAIN a :
        /\ i \in DOMAIN b
        /\ a[i] < b[i]
        /\ \A j \in 1..(i - 1) : a[j] = b[j]

\* Variant of cleanup_expired that also deletes the rows cached exactly at
\* the cutoff.
cleanup_expired_at_cutoff(tbl, t) ==
    LET cutoff_time == t - ttl_days
    IN  {r \in tbl : TextLess(isoformat(cutoff_time), r.cached_at)}

\* OverviewCache.cleanup_expired at time t.
cleanup_expired(tbl, t) ==
    LET cutoff_time == t - ttl_days
    IN  {r \in tbl : ~TextLess(r.cached_at, isoformat(cutoff_time))}

(***************************************************************************)
(* Cache clients: the runs and the maintenance tool, each on a connection  *)
(* of its own.                                                             *)
(***************************************************************************)
Clients == {"c1", "c2"}

Idle == [pc |-> "idle"]

\* The rows a caller would call the entry of ticker k.
RowsOf(tbl, k) == {r \in tbl : SameTicker(r.ticker_symbol, k)}

\* History kept when a get of a cache client returns the entry of ticker k.
Hit(w, k) ==
    {IF SameTicker(x.key, k) THEN [x EXCEPT !.hits = @ + 1] ELSE x : x \in w}

\* History kept when a DELETE or a set touches ticker k.
Forget(w, k) == {x \in w : ~SameTicker(x.key, k)}

\* The record of a completed operation: the rows of its ticker before and
\* after its last statement, the row its SELECT fetched, what it returned;
\* for clear and get also the whole table before and after.
Completed(c, op, k, args, fetched, before, at, result, after) ==
    [client |-> c, op |-> op, key |-> k, args |-> args, fetched |-> fetched,
     before |-> before, at |-> at, result |-> result, after |-> after,
     store |-> {}, store_after |-> {}]

CacheSet(c, k, d) ==
    /\ cpc[c] = Idle
    /\ ops < MaxOps
    /\ ops' = ops + 1
    /\ table' = set(table, k, d, now)
    /\ written' = Forget(written, k) \cup {[key |-> k, data |-> d, at |-> now, hits |-> 0]}
    /\ last' = Completed(c, "set", k, {d}, {}, RowsOf(table, k), now, {},
                         RowsOf(table', k))
    /\ UNCHANGED <<now, cpc, runVars, guardVars, httpVars>>

\* get, up to fetchone(): the connection holds no lock afterwards.
CacheGetSelect(c, k) ==
    /\ cpc[c] = Idle
    /\ ops < MaxOps
    /\ ops' = ops + 1
    /\ cpc' = [cpc EXCEPT ![c] =
                 [pc |-> "selected", key |-> k, row |-> get_select(table, k),
                  expect |-> {x \in written : SameTicker(x.key, k)}]]
    /\ UNCHANGED <<table, now, last, written, runVars, guardVars, httpVars>>

\* get, from the expiry test on: DELETE and commit, or the parsed payload.
CacheGetFinish(c) ==
    /\ cpc[c].pc = "selected"
    /\ LET k == cpc[c].key
           row == cpc[c].row
           expired == {r \in row : get_expired(r, now)}
       IN  /\ table' = IF expired # {} THEN get_delete(table, k)
                       ELSE get_hit(table, k, now)
           /\ written' = IF expired # {} /\ table' # table
                         THEN Forget(written, k)
                         ELSE IF get_result(row, now) # {}
                         THEN Hit(written, k)
                         ELSE written
           /\ last' = [Completed(c, "get", k, cpc[c].expect, row,
                                 RowsOf(table, k), now, get_result(row, now),
                                 RowsOf(table', k))
                         EXCEPT !.store = table, !.store_after = table']
    /\ cpc' = [cpc EXCEPT ![c] = Idle]
    /\ UNCHANGED <<now, ops, runVars, guardVars, httpVars>>

CacheClear(c, k) ==
    /\ cpc[c] = Idle
    /\ ops < MaxOps
    /\ ops' = ops + 1
    /\ table' = clear(table, {k})
    /\ written' = IF k = << >> THEN {} ELSE Forget(written, k)
    /\ last' = [Completed(c, "clear", k, {}, {}, RowsOf(table, k), now, {},
                          RowsOf(table', k))
                   EXCEPT !.store = table, !.store_after = table']
    /\ UNCHANGED <<now, cpc, runVars, guardVars, httpVars>>

\* clear() without a ticker, as clear_all_cache calls it.
CacheClearAll(c) ==
    /\ cpc[c] = Idle
    /\ ops < MaxOps
    /\ ops' = ops + 1
    /\ table' = clear(table, None)
    /\ written' = {}
    /\ last' = [Completed(c, "clear_all", << >>, {}, {}, table, now, {}, table')
                   EXCEPT !.store = table, !.store_after = table']
    /\ UNCHANGED <<now, cpc, runVars, guardVars, httpVars>>

CacheCleanupExpired(c) ==
    /\ cpc[c] = Idle
    /\ ops < MaxOps
    /\ ops' = ops + 1
    /\ table' = cleanup_expired(table, now)
    /\ last' = Completed(c, "cleanup", << >>, {}, {}, table, now, {}, table')
    /\ UNCHANGED <<now, cpc, written, runVars, guardVars, httpVars>>

(***************************************************************************)
(* manage_cache: the maintenance tool's delete and clear-all.              *)
(***************************************************************************)
\* str.lower() on one character.
LowerChar(c) ==
    CASE c = "Y" -> "y"
      [] c = "E" -> "e"
      [] c = "S" -> "s"
      [] c = "N" -> "n"
      [] OTHER -> c

\* str.lower().
lower(s) == [i \in DOMAIN s |-> LowerChar(s[i])]

\* str.strip(): the text between the first and the last character that is
\* not white space.
strip(s) ==
    LET ink == {i \in DOMAIN s : s[i] # " "}
    IN  IF ink = {} THEN << >>
        ELSE SubSeq(s, CHOOSE i \in ink : \A j \in ink : i <= j,
                       CHOOSE i \in ink : \A j \in ink : j <= i)

\* What the operator types at the prompt of clear_all_cache.
Answers ==
    { <<"y">>, <<"Y">>, <<"y", "e", "s">>, <<" ", "Y", "E", "S", " ">>,
      <<"n">>, << >>, <<"y", "e">> }

\* Variant of clear_all_cache that prints the cancellation and goes on.
clear_all_cache_no_return(tbl, confirm, answer) ==
    [table |-> clear(tbl, None), returned |-> TRUE]

\* clear_all_cache: with confirm, the answer is stripped and lower-cased
\* and anything but y or yes cancels; otherwise cache.clear().
clear_all_cache(tbl, confirm, answer) ==
    IF confirm /\ lower(strip(answer)) \notin {<<"y">>, <<"y", "e", "s">>}
    THEN [table |-> tbl, returned |-> FALSE]
    ELSE [table |-> clear(tbl, None), returned |-> TRUE]

\* delete_ticker: the ticker is upper-cased and looked up; without a row it
\* is reported as not found, with one cache.clear(ticker) is called.
delete_ticker(tbl, ticker) ==
    LET t == upper(ticker)
        row == {r \in tbl : r.ticker_symbol = t}
    IN  IF row = {}
        THEN [table |-> tbl, returned |-> FALSE, printed |-> "not found"]
        ELSE [table |-> clear(tbl, {t}), returned |-> TRUE,
              printed |-> "deleted"]

\* manage_cache --clear-all, with or without --yes.
CliClearAll(c, confirm, answer) ==
    /\ cpc[c] = Idle
    /\ ops < MaxOps
    /\ ops' = ops + 1
    /\ LET out == clear_all_cache(table, confirm, answer)
       IN  /\ table' = out.table
           /\ written' = IF out.returned THEN {} ELSE written
           /\ last' = [Completed(c, "clear_all_cache", << >>,
                                 {[confirm |-> confirm, answer |-> answer]},
                                 {}, table, now, {out.returned}, table')
                         EXCEPT !.store = table, !.store_after = table']
    /\ UNCHANGED <<now, cpc, runVars, guardVars, httpVars>>

\* manage_cache --delete TICKER.
CliDeleteTicker(c, k) ==
    /\ cpc[c] = Idle
    /\ ops < MaxOps
    /\ ops' = ops + 1
    /\ LET out == delete_ticker(table, k)
       IN  /\ table' = out.table
           /\ written' = {w \in written :
                             \E r \in table' :
                                 SameTicker(r.ticker_symbol, w.key)}
           /\ last' = [Completed(c, "delete_ticker", k, {}, {},
                                 RowsOf(table, k), now,
                                 {<<out.returned, out.printed>>},
                                 RowsOf(table', k))
                         EXCEPT !.store = table, !.store_after = table']
    /\ UNCHANGED <<now, cpc, runVars, guardVars, httpVars>>

(***************************************************************************)
(* The state schema and the numeric fields of the overview.                *)
(***************************************************************************)
\* The keys of AdvisorState: the channels of the graph.
AdvisorStateKeys ==
    { "ticker_symbol", "risk_appetite", "time_horizon", "recent_news_results",
      "recent_news_summary_result", "overview", "response",
      "guardrails_override", "trace_id" }

RiskAppetite == {"Low", "Medium", "High"}
TimeHorizon == {"Short-term", "Medium-term", "Long-term"}
Action == {"Buy", "Not Buy"}

NoneText == <<"N", "o", "n", "e">>

IsDigit(c) == c \in {"0", "1", "2", "3", "4", "5", "6", "7", "8", "9"}

DigitValue(c) ==
    CASE c = "0" -> 0 [] c = "1" -> 1 [] c = "2" -> 2 [] c = "3" -> 3
      [] c = "4" -> 4 [] c = "5" -> 5 [] c = "6" -> 6 [] c = "7" -> 7
      [] c = "8" -> 8 [] c = "9" -> 9

\* The value of a sequence of decimal digits.
RECURSIVE DigitsValue(_)
DigitsValue(s) ==
    IF s = << >> THEN 0
    ELSE DigitsValue(SubSeq(s, 1, Len(s) - 1)) * 10 + DigitValue(s[Len(s)])

\* float() accepts the text: digits, with at most one fractional digit here.
FloatAccepts(v) ==
    \/ /\ Len(v) >= 1
       /\ \A i \in DOMAIN v : IsDigit(v[i])
    \/ /\ Len(v) >= 3
       /\ v[Len(v) - 1] = "."
       /\ \A i \in DOMAIN v \ {Len(v) - 1} : IsDigit(v[i])

\* float(): the number, in tenths.
FloatValue(v) ==
    IF \A i \in DOMAIN v : IsDigit(v[i])
    THEN DigitsValue(v) * 10
    ELSE DigitsValue(SubSeq(v, 1, Len(v) - 2)) * 10 + DigitValue(v[Len(v)])

\* Variant of maybe_float_from_str that reads 'None' as 0.0.
maybe_float_from_str_zero(value) ==
    IF value = NoneText THEN {0}
    ELSE IF FloatAccepts(value) THEN {FloatValue(value)}
    ELSE {}

\* maybe_float_from_str: 'None' and text float() rejects give None.
maybe_float_from_str(value) ==
    IF value = NoneText THEN {}
    ELSE IF FloatAccepts(value) THEN {FloatValue(value)}
    ELSE {}

\* Overview(...) as get_overview_indicators builds it: a subscript of a
\* missing member raises KeyError, and then no overview is built.
OverviewOf(response) ==
    IF \A i \in DOMAIN FieldOrder : FieldOrder[i] \in DOMAIN response
    THEN {[ description |-> response["Description"],
            market_capitalization |->
                maybe_float_from_str(response["MarketCapitalization"]),
            pe_ratio |-> maybe_float_from_str(response["PERatio"]),
            peg_ratio |-> maybe_float_from_str(response["PEGRatio"]),
            book_value |-> maybe_float_from_str(response["BookValue"]),
            dividend_yield |-> maybe_float_from_str(response["DividendYield"]),
            dividend_per_share |->
                maybe_float_from_str(response["DividendPerShare"]),
            eps |-> maybe_float_from_str(response["EPS"]),
            beta |-> maybe_float_from_str(response["Beta"]),
            sector |-> response["Sector"],
            industry |-> response["Industry"] ]}
    ELSE {}

(***************************************************************************)
(* The guardrail.                                                          *)
(***************************************************************************)
failure_reason == "High beta stock not suitable for low risk appetite"

\* Variant of the test that fails a beta of 1.0 too.
guardrail_failed_from_one(state) ==
    /\ state["response"].suggested_action = "Buy"
    /\ state["risk_appetite"] \in {"Low"}
    /\ \E b \in state["overview"].beta : b # 0 /\ b >= 10

\* The test `failed` of risk_appetite_beta_guardrail: a beta of None or 0.0
\* is falsy, and 1.0 is 10 tenths.
guardrail_failed(state) ==
    /\ state["response"].suggested_action = "Buy"
    /\ state["risk_appetite"] \in {"Low"}
    /\ \E b \in state["overview"].beta : b # 0 /\ b > 10

\* The keys of the state the guardrail subscripts.
guardrail_reads ==
    {"response", "trace_id", "risk_appetite", "overview", "ticker_symbol"}

\* Variant of the node that compares the beta without testing it first: a
\* beta of None raises TypeError.
guardrail_raises_on_no_beta(state) ==
    \/ ~(guardrail_reads \subseteq DOMAIN state)
    \/ state["overview"].beta = {}

\* risk_appetite_beta_guardrail raises: only a subscript of a key the state
\* lacks does (KeyError); `beta and beta > 1.0` is defined for a beta of
\* None, and an exception of create_guardrails is caught.
guardrail_raises(state) == ~(guardrail_reads \subseteq DOMAIN state)

\* Variant of the return value that rewrites the response of every request
\* with Low risk appetite.
guardrail_return_forced(state) ==
    IF state["risk_appetite"] \in {"Low"}
    THEN [response |-> [suggested_action |-> "Not Buy",
                        reasoning |-> failure_reason]]
    ELSE << >>

\* What risk_appetite_beta_guardrail returns.
guardrail_return(state) ==
    IF guardrail_failed(state)
    THEN [guardrail_override |->
             [suggested_action |-> "Not Buy", reason |-> failure_reason]]
    ELSE << >>

\* Variant of the record that carries the id of the guardrail span in the
\* place of the id of the run's trace.
guardrail_data_span_id(state) ==
    [ entity_id |-> 0,
      result |-> IF guardrail_failed(state) THEN "failed" ELSE "passed",
      reason |-> IF guardrail_failed(state) THEN {failure_reason} ELSE {},
      beta |-> state["overview"].beta ]

\* The GuardrailWrite record of one evaluation.
guardrail_data(state) ==
    [ entity_id |-> state["trace_id"],
      result |-> IF guardrail_failed(state) THEN "failed" ELSE "passed",
      reason |-> IF guardrail_failed(state) THEN {failure_reason} ELSE {},
      beta |-> state["overview"].beta ]

(***************************************************************************)
(* The workflow graph.                                                     *)
(***************************************************************************)
Nodes ==
    { "recent_news", "web_search_results_summarization",
      "get_overview_indicators", "investment_suggestion",
      "risk_appetite_beta_guardrail" }

\* Variant of the graph in which get_overview_indicators follows recent_news.
Edges_chained ==
    { [from |-> {"__start__"}, to |-> "recent_news"],
      [from |-> {"recent_news"}, to |-> "get_overview_indicators"],
      [from |-> {"recent_news"}, to |-> "web_search_results_summarization"],
      [from |-> {"web_search_results_summarization",
                 "get_overview_indicators"},
       to |-> "investment_suggestion"],
      [from |-> {"investment_suggestion"},
       to |-> "risk_appetite_beta_guardrail"] }

\* Variant of the graph with two plain edges into investment_suggestion
\* instead of the join edge.
Edges_two_edges ==
    { [from |-> {"__start__"}, to |-> "recent_news"],
      [from |-> {"__start__"}, to |-> "get_overview_indicators"],
      [from |-> {"recent_news"}, to |-> "web_search_results_summarization"],
      [from |-> {"web_search_results_summarization"},
       to |-> "investment_suggestion"],
      [from |-> {"get_overview_indicators"}, to |-> "investment_suggestion"],
      [from |-> {"investment_suggestion"},
       to |-> "risk_appetite_beta_guardrail"] }

\* Variant of the graph without the edge into the guardrail: the run ends
\* at investment_suggestion.
Edges_no_guardrail ==
    { [from |-> {"__start__"}, to |-> "recent_news"],
      [from |-> {"__start__"}, to |-> "get_overview_indicators"],
      [from |-> {"recent_news"}, to |-> "web_search_results_summarization"],
      [from |-> {"web_search_results_summarization",
                 "get_overview_indicators"},
       to |-> "investment_suggestion"] }

\* The edges added to the graph builder; START is "__start__".
Edges ==
    { [from |-> {"__start__"}, to |-> "recent_news"],
      [from |-> {"__start__"}, to |-> "get_overview_indicators"],
      [from |-> {"recent_news"}, to |-> "web_search_results_summarization"],
      [from |-> {"web_search_results_summarization",
                 "get_overview_indicators"},
       to |-> "investment_suggestion"],
      [from |-> {"investment_suggestion"},
       to |-> "risk_appetite_beta_guardrail"] }

\* Variant of the trigger with one edge per source instead of the join.
Triggered_by_any(n, finished, done) ==
    \E e \in Edges : e.to = n /\ e.from \cap finished # {}

\* A node runs in the superstep after one in which a source of one of its
\* edges finished, once every source of that edge has finished.
Triggered(n, finished, done) ==
    \E e \in Edges :
        /\ e.to = n
        /\ e.from \cap finished # {}
        /\ e.from \subseteq done

\* Variant of the write in which the returned dict replaces the state.
Merge_patch_only(state, patch) ==
    [k \in DOMAIN patch \cap AdvisorStateKeys |-> patch[k]]

\* A node's return value is written to the channels of the state schema;
\* other keys of the returned dict are dropped.
Merge(state, patch) ==
    [k \in DOMAIN state \cup (DOMAIN patch \cap AdvisorStateKeys) |->
        IF k \in DOMAIN patch THEN patch[k] ELSE state[k]]

\* The writes of one superstep, applied one after the other.
RECURSIVE MergeAll(_, _)
MergeAll(state, patches) ==
    IF patches = {} THEN state
    ELSE LET q == CHOOSE x \in patches : TRUE
         IN  MergeAll(Merge(state, q), patches \ {q})

Runs == {"r1", "r2"}

\* The runs of the caller that awaits each ainvoke before the next one.
SequentialRuns == {"r1"}

\* The ticker symbols of the requests.
RequestTickers == { <<"k", "o">>, <<"K", "O">> }

DocNoBeta ==
    [f \in DOMAIN DocLowBeta \ {"Beta"} |-> DocLowBeta[f]]

\* The document of a symbol the provider does not know: no members.
DocEmpty == << >>

\* What the COMPANY_OVERVIEW tool answers.
ToolDocs == Docs \cup {DocNoBeta, DocEmpty}

\* The members of the document that Overview(...) passes through
\* maybe_float_from_str, with the field of Overview each one fills.
NumericFields ==
    [ MarketCapitalization |-> "market_capitalization",
      PERatio |-> "pe_ratio", PEGRatio |-> "peg_ratio",
      BookValue |-> "book_value", DividendYield |-> "dividend_yield",
      DividendPerShare |-> "dividend_per_share", EPS |-> "eps",
      Beta |-> "beta" ]

\* The members that Overview(...) takes as they are.
DescriptiveFields == {"Description", "Sector", "Industry"}

\* What the provider writes into a numeric member: 'None', '-', a number.
FieldTexts == { NoneText, <<"-">>, <<"2", ".", "5">> }

\* Complete documents: one numeric member varied, or all of them.
VariedDocs ==
    {[DocLowBeta EXCEPT ![f] = v] : f \in DOMAIN NumericFields, v \in FieldTexts}
        \cup {[f \in DOMAIN DocLowBeta |->
                  IF f \in DOMAIN NumericFields THEN v ELSE DocLowBeta[f]]
               : v \in FieldTexts}

\* Documents with one member missing, and the document with none.
MissingDocs ==
    {[g \in DOMAIN DocLowBeta \ {f} |-> DocLowBeta[g]] : f \in DOMAIN DocLowBeta}
        \cup {DocEmpty}

FundamentalsDocs == VariedDocs \cup MissingDocs

NewsResults == << [title |-> "t", url |-> "u", content |-> "c"] >>

Summary ==
    [summary |-> "s", sources |-> << [title |-> "t", url |-> "u"] >>]

NoRun == [status |-> "none", error |-> "", result |-> {}]

\* get_overview_indicators before it has run: its position, the row its
\* SELECT fetched, what overview_cache.get returned, the number of calls of
\* the tool, the documents it stored and the document it built from.
OvStart ==
    [pc |-> "get", row |-> {}, cached |-> {}, calls |-> 0, stored |-> << >>,
     response |-> {}]

OvNone == [OvStart EXCEPT !.pc = "end"]

NoHist ==
    [order |-> << >>, recommended |-> {}, triggered |-> {},
     started |-> [n \in Nodes |-> 0], issued |-> << >>]

\* The executions of the nodes, counted as the executor starts them.
Started(h, next) ==
    [h EXCEPT !.started = [n \in Nodes |-> @[n] + IF n \in next THEN 1 ELSE 0]]

Running(r) == outcome[r].status = "running"

\* Variant of a finished node whose return value is kept on the agent, which
\* the runs of one caller share.
Return_shared(r, n, patch) ==
    /\ node' = [node EXCEPT ![r][n] = "done"]
    /\ pending' = [q \in Runs |-> pending[q] \cup {[node |-> n, patch |-> patch]}]
    /\ hist' = [hist EXCEPT ![r].order = Append(@, n)]
    /\ UNCHANGED <<rstate, tasks, outcome>>

\* Variant of a node whose call blocks for good: the node neither returns
\* nor raises.
Return_blocked(r, n, patch) ==
    /\ node' = [node EXCEPT ![r][n] = "blocked"]
    /\ UNCHANGED <<rstate, tasks, pending, outcome, hist>>

\* A node that finished: its return value waits for the end of the superstep.
Return(r, n, patch) ==
    /\ node' = [node EXCEPT ![r][n] = "done"]
    /\ pending' = [pending EXCEPT ![r] = @ \cup {[node |-> n, patch |-> patch]}]
    /\ hist' = [hist EXCEPT ![r].order = Append(@, n)]
    /\ UNCHANGED <<rstate, tasks, outcome>>

\* Variant of a raising node whose exception is caught inside the node.
Raise_swallowed(r, n) ==
    /\ node' = [node EXCEPT ![r][n] = "failed"]
    /\ UNCHANGED <<rstate, tasks, pending, outcome, hist>>

\* Variant of a raising node after which ainvoke returns what the nodes
\* that finished have produced.
Raise_partial(r, n) ==
    /\ node' = [node EXCEPT ![r] =
                  [m \in Nodes |->
                      IF m = n THEN "failed"
                      ELSE IF node[r][m] = "running" THEN "cancelled"
                      ELSE node[r][m]]]
    /\ outcome' = [outcome EXCEPT ![r] =
                     [status |-> "failed", error |-> n,
                      result |-> {MergeAll(rstate[r],
                                           {w.patch : w \in pending[r]})}]]
    /\ UNCHANGED <<rstate, tasks, pending, hist>>

\* Variant of a raising node that the executor runs again (a retry policy on
\* the node).
Raise_retry(r, n) ==
    /\ hist' = [hist EXCEPT ![r].started[n] = @ + 1]
    /\ UNCHANGED <<rstate, node, tasks, pending, outcome>>

\* A node that raised: the superstep stops, the nodes still running are
\* cancelled, and graph.ainvoke and ainvoke raise the node's exception.
Raise(r, n) ==
    /\ node' = [node EXCEPT ![r] =
                  [m \in Nodes |->
                      IF m = n THEN "failed"
                      ELSE IF node[r][m] = "running" THEN "cancelled"
                      ELSE node[r][m]]]
    /\ outcome' = [outcome EXCEPT ![r] =
                     [status |-> "failed", error |-> n, result |-> {}]]
    /\ UNCHANGED <<rstate, tasks, pending, hist>>

\* ainvoke: the trace id is put into the state and the graph starts.
StartRun(r, ticker, risk, horizon) ==
    /\ outcome[r].status # "running"
    /\ nextTrace <= MaxRuns
    /\ nextTrace' = nextTrace + 1
    /\ rstate' = [rstate EXCEPT ![r] =
                    [ticker_symbol |-> ticker, risk_appetite |-> risk,
                     time_horizon |-> horizon, trace_id |-> nextTrace]]
    /\ tasks' = [tasks EXCEPT ![r] =
                   {n \in Nodes : Triggered(n, {"__start__"}, {"__start__"})}]
    /\ node' = [node EXCEPT ![r] =
                  [n \in Nodes |-> IF n \in tasks'[r] THEN "running" ELSE "idle"]]
    /\ pending' = [pending EXCEPT ![r] = {}]
    /\ ov' = [ov EXCEPT ![r] = OvStart]
    /\ outcome' = [outcome EXCEPT ![r] =
                     [status |-> "running", error |-> "", result |-> {}]]
    /\ hist' = [hist EXCEPT ![r] = Started(NoHist, tasks'[r])]
    /\ UNCHANGED <<cacheVars, audit, guardVars, httpVars>>

\* Variant of the executor that starts a node as soon as the nodes it
\* depends on have finished, without waiting for the rest of the superstep.
EndSuperstep_eager(r) ==
    /\ Running(r)
    /\ \E n \in tasks[r] : node[r][n] \in {"done", "failed"}
    /\ LET finished == {n \in tasks[r] : node[r][n] \in {"done", "failed"}}
           done == {n \in Nodes : node[r][n] \in {"done", "failed"}}
           patches == {w.patch : w \in pending[r]}
           merged == MergeAll(rstate[r], patches)
           next == {n \in Nodes : Triggered(n, finished, done)}
       IN  /\ rstate' = [rstate EXCEPT ![r] = merged]
           /\ tasks' = [tasks EXCEPT ![r] = (@ \ finished) \cup next]
           /\ node' = [node EXCEPT ![r] =
                         [n \in Nodes |->
                             IF n \in next THEN "running" ELSE node[r][n]]]
           /\ outcome' = [outcome EXCEPT ![r] =
                            IF tasks'[r] = {}
                            THEN [status |-> "done", error |-> "",
                                  result |-> {merged}]
                            ELSE @]
           /\ hist' = [hist EXCEPT ![r] = Started(@, next)]
    /\ pending' = [pending EXCEPT ![r] = {}]
    /\ UNCHANGED <<cacheVars, ov, nextTrace, audit, guardVars, httpVars>>

\* The end of a superstep: the returned values are written to the state and
\* the nodes they trigger start; with none to start, ainvoke returns.
EndSuperstep(r) ==
    /\ Running(r)
    /\ tasks[r] # {}
    /\ \A n \in tasks[r] : node[r][n] \in {"done", "failed"}
    /\ LET done == {n \in Nodes : node[r][n] \in {"done", "failed"}}
           patches == {w.patch : w \in pending[r]}
           merged == MergeAll(rstate[r], patches)
           next == {n \in Nodes : Triggered(n, tasks[r], done)}
       IN  /\ rstate' = [rstate EXCEPT ![r] = merged]
           /\ tasks' = [tasks EXCEPT ![r] = next]
           /\ node' = [node EXCEPT ![r] =
                         [n \in Nodes |->
                             IF n \in next THEN "running" ELSE node[r][n]]]
           /\ outcome' = [outcome EXCEPT ![r] =
                            IF next = {}
                            THEN [status |-> "done", error |-> "",
                                  result |-> {merged}]
                            ELSE @]
           /\ hist' = [hist EXCEPT ![r] = Started(@, next)]
    /\ pending' = [pending EXCEPT ![r] = {}]
    /\ UNCHANGED <<cacheVars, ov, nextTrace, audit, guardVars, httpVars>>

\* recent_news: the search answered.
RecentNewsReturn(r) ==
    /\ Running(r)
    /\ node[r]["recent_news"] = "running"
    /\ Return(r, "recent_news", [recent_news_results |-> NewsResults])
    /\ UNCHANGED <<cacheVars, ov, nextTrace, audit, guardVars, httpVars>>

\* recent_news: the search failed.
RecentNewsRaise(r) ==
    /\ Running(r)
    /\ node[r]["recent_news"] = "running"
    /\ Raise(r, "recent_news")
    /\ UNCHANGED <<cacheVars, ov, nextTrace, audit, guardVars, httpVars>>

\* web_search_results_summarization: the summary chain answered.
SummarizationReturn(r) ==
    /\ Running(r)
    /\ node[r]["web_search_results_summarization"] = "running"
    /\ IF "recent_news_results" \in DOMAIN rstate[r]
       THEN Return(r, "web_search_results_summarization",
                   [recent_news_summary_result |-> Summary])
       ELSE Raise(r, "web_search_results_summarization")
    /\ UNCHANGED <<cacheVars, ov, nextTrace, audit, guardVars, httpVars>>

\* web_search_results_summarization: the summary chain failed.
SummarizationRaise(r) ==
    /\ Running(r)
    /\ node[r]["web_search_results_summarization"] = "running"
    /\ Raise(r, "web_search_results_summarization")
    /\ UNCHANGED <<cacheVars, ov, nextTrace, audit, guardVars, httpVars>>

\* get_overview_indicators, the rest of the node once `response` is known:
\* the overview is built and returned, or the KeyError is raised.
OverviewBuild(r, response) ==
    IF OverviewOf(response) # {}
    THEN Return(r, "get_overview_indicators",
                [overview |-> CHOOSE o \in OverviewOf(response) : TRUE])
    ELSE Raise(r, "get_overview_indicators")

\* get_overview_indicators: the SELECT of overview_cache.get(symbol).
OverviewGetSelect(r) ==
    /\ Running(r)
    /\ node[r]["get_overview_indicators"] = "running"
    /\ ov[r].pc = "get"
    /\ ov' = [ov EXCEPT ![r].pc = "selected",
                         ![r].row = get_select(table, rstate[r]["ticker_symbol"])]
    /\ UNCHANGED <<cacheVars, rstate, node, tasks, pending, outcome,
                   nextTrace, audit, hist, guardVars, httpVars>>

\* get_overview_indicators: the rest of overview_cache.get(symbol); a truthy
\* cached document is used, otherwise the tool is called and awaited.
OverviewGetFinish(r) ==
    /\ Running(r)
    /\ node[r]["get_overview_indicators"] = "running"
    /\ ov[r].pc = "selected"
    /\ LET symbol == rstate[r]["ticker_symbol"]
           expired == {x \in ov[r].row : get_expired(x, now)}
           returned == get_result(ov[r].row, now)
           cached_data == {d \in returned : DOMAIN d # {}}
       IN  /\ table' = IF expired # {} THEN get_delete(table, symbol)
                       ELSE get_hit(table, symbol, now)
           /\ written' = IF table' # table THEN Forget(written, symbol)
                         ELSE written
           /\ IF cached_data # {}
              THEN /\ OverviewBuild(r, CHOOSE d \in cached_data : TRUE)
                   /\ ov' = [ov EXCEPT ![r].pc = "end", ![r].row = {},
                                        ![r].cached = returned,
                                        ![r].response = cached_data]
              ELSE /\ ov' = [ov EXCEPT ![r].pc = "await", ![r].row = {},
                                        ![r].cached = returned,
                                        ![r].calls = @ + 1]
                   /\ UNCHANGED <<rstate, node, tasks, pending, outcome, hist>>
    /\ UNCHANGED <<now, cpc, ops, last, nextTrace, audit, guardVars, httpVars>>

\* get_overview_indicators: the tool answered; the document is cached and
\* then the overview is built.
OverviewToolReturn(r, doc) ==
    /\ Running(r)
    /\ node[r]["get_overview_indicators"] = "running"
    /\ ov[r].pc = "await"
    /\ LET symbol == rstate[r]["ticker_symbol"]
           response == json_loads(json_dumps(doc))
       IN  /\ table' = set(table, symbol, response, now)
           /\ written' = Forget(written, symbol)
                            \cup {[key |-> symbol, data |-> response, at |-> now,
                                   hits |-> 0]}
           /\ OverviewBuild(r, response)
           /\ ov' = [ov EXCEPT ![r].pc = "end",
                                ![r].stored = Append(@, response),
                                ![r].response = {response}]
    /\ UNCHANGED <<now, cpc, ops, last, nextTrace, audit, guardVars, httpVars>>

\* get_overview_indicators: the tool call raised, or json.loads rejected
\* what it answered.
OverviewToolRaise(r) ==
    /\ Running(r)
    /\ node[r]["get_overview_indicators"] = "running"
    /\ ov[r].pc = "await"
    /\ Raise(r, "get_overview_indicators")
    /\ ov' = [ov EXCEPT ![r].pc = "end"]
    /\ UNCHANGED <<cacheVars, nextTrace, audit, guardVars, httpVars>>

\* investment_suggestion: the response chain answered with an action.
InvestmentSuggestionReturn(r, action) ==
    /\ Running(r)
    /\ node[r]["investment_suggestion"] = "running"
    /\ IF {"recent_news_summary_result", "overview"} \subseteq DOMAIN rstate[r]
       THEN /\ node' = [node EXCEPT ![r]["investment_suggestion"] = "done"]
            /\ pending' = [pending EXCEPT ![r] = @ \cup
                  {[node |-> "investment_suggestion",
                    patch |-> [response |-> [suggested_action |-> action,
                                             reasoning |-> "why"]]]}]
            /\ hist' = [hist EXCEPT
                          ![r].order = Append(@, "investment_suggestion"),
                          ![r].recommended = {action}]
            /\ UNCHANGED <<rstate, tasks, outcome>>
       ELSE Raise(r, "investment_suggestion")
    /\ UNCHANGED <<cacheVars, ov, nextTrace, audit, guardVars, httpVars>>

\* investment_suggestion: the response chain failed.
InvestmentSuggestionRaise(r) ==
    /\ Running(r)
    /\ node[r]["investment_suggestion"] = "running"
    /\ Raise(r, "investment_suggestion")
    /\ UNCHANGED <<cacheVars, ov, nextTrace, audit, guardVars, httpVars>>

\* Variant of the node that sends the record outside a try block: an
\* exception of create_guardrails leaves the node.
Guardrail_unguarded(r, sinkOk) ==
    /\ Running(r)
    /\ node[r]["risk_appetite_beta_guardrail"] = "running"
    /\ IF ~guardrail_raises(rstate[r]) /\ sinkOk
       THEN /\ audit' = audit \cup {guardrail_data(rstate[r])}
            /\ node' = [node EXCEPT ![r]["risk_appetite_beta_guardrail"] = "done"]
            /\ pending' = [pending EXCEPT ![r] = @ \cup
                  {[node |-> "risk_appetite_beta_guardrail",
                    patch |-> guardrail_return(rstate[r])]}]
            /\ hist' = [hist EXCEPT
                          ![r].order = Append(@, "risk_appetite_beta_guardrail"),
                          ![r].triggered = {guardrail_failed(rstate[r])},
                          ![r].issued = Append(@, guardrail_data(rstate[r]))]
            /\ UNCHANGED <<rstate, tasks, outcome>>
       ELSE /\ Raise(r, "risk_appetite_beta_guardrail")
            /\ UNCHANGED audit
    /\ UNCHANGED <<cacheVars, ov, nextTrace, guardVars, httpVars>>

\* risk_appetite_beta_guardrail: the record is sent to the sink, a failure
\* of that call is printed and ignored, and the verdict is returned.
Guardrail(r, sinkOk) ==
    /\ Running(r)
    /\ node[r]["risk_appetite_beta_guardrail"] = "running"
    /\ IF ~guardrail_raises(rstate[r])
       THEN /\ audit' = IF sinkOk THEN audit \cup {guardrail_data(rstate[r])}
                        ELSE audit
            /\ node' = [node EXCEPT ![r]["risk_appetite_beta_guardrail"] = "done"]
            /\ pending' = [pending EXCEPT ![r] = @ \cup
                  {[node |-> "risk_appetite_beta_guardrail",
                    patch |-> guardrail_return(rstate[r])]}]
            /\ hist' = [hist EXCEPT
                          ![r].order = Append(@, "risk_appetite_beta_guardrail"),
                          ![r].triggered = {guardrail_failed(rstate[r])},
                          ![r].issued = Append(@, guardrail_data(rstate[r]))]
            /\ UNCHANGED <<rstate, tasks, outcome>>
       ELSE /\ Raise(r, "risk_appetite_beta_guardrail")
            /\ UNCHANGED audit
    /\ UNCHANGED <<cacheVars, ov, nextTrace, guardVars, httpVars>>

(***************************************************************************)
(* generate_strategy: the response built from what ainvoke returned.       *)
(***************************************************************************)
\* A KeyError raised by the handler is answered with status 500 and no
\* ServiceResponse.
ServiceResponse(workflow_result) ==
    IF "guardrail_override" \in DOMAIN workflow_result
    THEN IF "guardrails_override" \in DOMAIN workflow_result
         THEN [status_code |-> 500,
               suggested_action |->
                   workflow_result["response"].suggested_action,
               reasoning |-> workflow_result["response"].reasoning,
               sources |->
                   workflow_result["recent_news_summary_result"].sources,
               guardrail_override |->
                   {workflow_result["guardrails_override"]}]
         ELSE [status_code |-> 500, raised |-> "KeyError"]
    ELSE [status_code |-> 200,
          suggested_action |-> workflow_result["response"].suggested_action,
          reasoning |-> workflow_result["response"].reasoning,
          sources |-> workflow_result["recent_news_summary_result"].sources,
          guardrail_override |-> {}]

\* Variant of the handler that answers a failed run with a default.
generate_strategy_fallback(out) ==
    IF out.status = "done"
    THEN ServiceResponse(CHOOSE res \in out.result : TRUE)
    ELSE [status_code |-> 200, suggested_action |-> "Not Buy",
          reasoning |-> "", sources |-> << >>, guardrail_override |-> {}]

\* generate_strategy from `await workflow.ainvoke(...)` on, for a run that
\* has ended: the exception of a failed run is not caught and is answered
\* with status 500; the state of a finished run is shaped into the response.
generate_strategy(out) ==
    IF out.status = "done"
    THEN ServiceResponse(CHOOSE res \in out.result : TRUE)
    ELSE [status_code |-> 500, raised |-> out.error]

\* The run has ended, one way or the other.
Ended(r) == outcome[r].status \in {"done", "failed"}

(***************************************************************************)
(* generate_strategy up to the construction of the WorkflowAgent.          *)
(***************************************************************************)
\* The fields of the InvestmentRequest model.
InvestmentRequestFields == {"ticker_symbol", "risk_appetite", "time_horizon"}

\* The parameters WorkflowAgent.__init__ accepts.
WorkflowAgentParams == {"overview_tool"}

\* An API key is a set: empty for a key that is absent (None or ''), else
\* the key.
ApiKeys == {{}, {"key"}}

\* The JSON bodies a client posts: the three fields of the request and, as
\* the settings panel offers, API keys.
Bodies ==
    [ticker_symbol : RequestTickers, risk_appetite : RiskAppetite,
     time_horizon : TimeHorizon, tavily_api_key : ApiKeys,
     openai_api_key : ApiKeys]

\* The environment of the server process.
Environments ==
    [ENVIRONMENT : {"production", "development"},
     TAVILY_API_KEY : ApiKeys, OPENAI_API_KEY : ApiKeys]

\* InvestmentRequest(**body): the model keeps its own fields and ignores
\* the other keys of the body.
InvestmentRequest(body) ==
    [f \in DOMAIN body \cap InvestmentRequestFields |-> body[f]]

\* Python's `a or b` on keys.
KeyOr(a, b) == IF a # {} THEN a ELSE b

\* Lines 66-108: the keys are read off the request, which raises
\* AttributeError for a field the model does not have; a missing key is
\* answered with HTTPException 500 (local) or 400 (production); the agent
\* is then constructed with the keys as keyword arguments, which raises
\* TypeError for a parameter __init__ does not accept. An exception that is
\* not an HTTPException is answered with status 500.
generate_strategy_start(request, env) ==
    LET is_local == env.ENVIRONMENT # "production"
        kwargs == {"overview_tool", "tavily_api_key", "openai_api_key"}
    IN  IF ~({"tavily_api_key", "openai_api_key"} \subseteq DOMAIN request)
        THEN [status_code |-> 500, raised |-> "AttributeError"]
        ELSE LET tavily_api_key ==
                     IF is_local
                     THEN KeyOr(request["tavily_api_key"], env.TAVILY_API_KEY)
                     ELSE request["tavily_api_key"]
                 openai_api_key ==
                     IF is_local
                     THEN KeyOr(request["openai_api_key"], env.OPENAI_API_KEY)
                     ELSE request["openai_api_key"]
             IN  IF tavily_api_key = {} \/ openai_api_key = {}
                 THEN [status_code |-> IF is_local THEN 500 ELSE 400,
                       raised |-> "HTTPException"]
                 ELSE IF ~(kwargs \subseteq WorkflowAgentParams)
                 THEN [status_code |-> 500, raised |-> "TypeError"]
                 ELSE [status_code |-> 0, raised |-> ""]

NoExchange ==
    [pc |-> "none", body |-> << >>, env |-> << >>, status_code |-> 0,
     raised |-> ""]

\* generate_strategy on one request: it answers with the error of its first
\* part, or goes on to await ainvoke.
GenerateStrategy(body, env) ==
    LET start == generate_strategy_start(InvestmentRequest(body), env)
    IN  /\ http' = [pc |-> IF start.raised = "" THEN "ainvoke" ELSE "responded",
                    body |-> body, env |-> env,
                    status_code |-> start.status_code,
                    raised |-> start.raised]
        /\ UNCHANGED <<cacheVars, runVars, guardVars>>

(***************************************************************************)
(* A single evaluation of the guardrail on a given state.                  *)
(***************************************************************************)
GuardrailState(action, risk, beta) ==
    [ticker_symbol |-> <<"K", "O">>, risk_appetite |-> risk,
     trace_id |-> 0,
     response |-> [suggested_action |-> action, reasoning |-> "why"],
     overview |-> [beta |-> beta]]

EvaluateGuardrail(sinkOk) ==
    /\ gout = {}
    /\ IF guardrail_raises(gstate)
       THEN /\ gout' = {[raised |-> "KeyError"]}
            /\ UNCHANGED audit
       ELSE /\ gout' = {guardrail_return(gstate)}
            /\ audit' = IF sinkOk THEN audit \cup {guardrail_data(gstate)}
                         ELSE audit
    /\ UNCHANGED <<cacheVars, rstate, node, tasks, pending, ov, outcome,
                   nextTrace, hist, gstate, httpVars>>

(***************************************************************************)
(* The clock.                                                              *)
(***************************************************************************)
\* The clock is observed a full TTL, or a day more than that, later. No
\* day passes inside one call of get.
TickDays == {ttl_days, ttl_days + 1}

Tick ==
    /\ \A c \in Clients : cpc[c] = Idle
    /\ \A r \in Runs : ov[r].pc # "selected"
    /\ \E d \in TickDays : now + d <= MaxTime /\ now' = now + d
    /\ UNCHANGED <<table, cpc, ops, last, written, runVars, guardVars, httpVars>>

(***************************************************************************)
(* Initial states and specifications.                                      *)
(***************************************************************************)
InitStore ==
    /\ table = {}
    /\ now = ttl_days
    /\ cpc = [c \in Clients |-> Idle]
    /\ ops = 0
    /\ last = Completed("c1", "none", << >>, {}, {}, {}, ttl_days, {}, {})
    /\ written = {}

InitRuns ==
    /\ rstate = [r \in Runs |-> << >>]
    /\ node = [r \in Runs |-> [n \in Nodes |-> "idle"]]
    /\ tasks = [r \in Runs |-> {}]
    /\ pending = [r \in Runs |-> {}]
    /\ ov = [r \in Runs |-> OvNone]
    /\ outcome = [r \in Runs |-> NoRun]
    /\ nextTrace = 1
    /\ audit = {}
    /\ hist = [r \in Runs |-> NoHist]

InitGuard ==
    /\ gstate = GuardrailState("Buy", "Low", {})
    /\ gout = {}
    /\ http = NoExchange

InitCache == InitStore /\ InitRuns /\ InitGuard

NextCache ==
    \/ \E c \in Clients, k \in Tickers, d \in Docs : CacheSet(c, k, d)
    \/ \E c \in Clients, k \in Tickers : CacheGetSelect(c, k)
    \/ \E c \in Clients : CacheGetFinish(c)
    \/ \E c \in Clients, k \in Tickers : CacheClear(c, k)
    \/ \E c \in Clients : CacheClearAll(c)
    \/ \E c \in Clients : CacheCleanupExpired(c)
    \/ Tick

SpecCache == InitCache /\ [][NextCache]_vars

\* The maintenance tool at work on a cache that the runs fill.
NextCli ==
    \/ \E c \in Clients, k \in Tickers, d \in Docs : CacheSet(c, k, d)
    \/ \E c \in Clients, confirm \in BOOLEAN, answer \in Answers :
          CliClearAll(c, confirm, answer)
    \/ \E c \in Clients, k \in Tickers : CliDeleteTicker(c, k)
    \/ Tick

SpecCli == InitCache /\ [][NextCli]_vars

\* The workflow: a caller that starts one run after the other, as
\* evaluate_task does; the cache and the clock are kept between the runs.
Init == InitStore /\ InitRuns /\ InitGuard

Next ==
    \/ \E r \in SequentialRuns, t \in RequestTickers, k \in RiskAppetite,
          h \in TimeHorizon : StartRun(r, t, k, h)
    \/ \E r \in SequentialRuns : EndSuperstep(r)
    \/ \E r \in SequentialRuns : RecentNewsReturn(r)
    \/ \E r \in SequentialRuns : RecentNewsRaise(r)
    \/ \E r \in SequentialRuns : SummarizationReturn(r)
    \/ \E r \in SequentialRuns : SummarizationRaise(r)
    \/ \E r \in SequentialRuns : OverviewGetSelect(r)
    \/ \E r \in SequentialRuns : OverviewGetFinish(r)
    \/ \E r \in SequentialRuns, d \in ToolDocs : OverviewToolReturn(r, d)
    \/ \E r \in SequentialRuns : OverviewToolRaise(r)
    \/ \E r \in SequentialRuns, a \in Action : InvestmentSuggestionReturn(r, a)
    \/ \E r \in SequentialRuns : InvestmentSuggestionRaise(r)
    \/ \E r \in SequentialRuns, ok \in BOOLEAN : Guardrail(r, ok)
    \/ Tick

Spec == Init /\ [][Next]_vars

\* The guardrail alone, on every combination of its inputs.
\* The requests the HTTP handler is given, in every environment.
NextHandler ==
    \E body \in Bodies, env \in Environments : GenerateStrategy(body, env)

SpecHandler == Init /\ [][NextHandler]_vars

\* The calls of a run, each of which returns or fails, and the executor.
NewsCall(r) == RecentNewsReturn(r) \/ RecentNewsRaise(r)

SummarizationCall(r) == SummarizationReturn(r) \/ SummarizationRaise(r)

CacheCall(r) == OverviewGetSelect(r) \/ OverviewGetFinish(r)

OverviewToolCall(r) ==
    (\E d \in ToolDocs : OverviewToolReturn(r, d)) \/ OverviewToolRaise(r)

SuggestionCall(r) ==
    (\E a \in Action : InvestmentSuggestionReturn(r, a))
        \/ InvestmentSuggestionRaise(r)

GuardrailCall(r) == \E ok \in BOOLEAN : Guardrail(r, ok)

\* Every call that was made returns or fails in the end, and the executor
\* goes on when the tasks of a superstep have finished.
Fairness ==
    \A r \in SequentialRuns :
        /\ WF_vars(NewsCall(r))
        /\ WF_vars(SummarizationCall(r))
        /\ WF_vars(CacheCall(r))
        /\ WF_vars(OverviewToolCall(r))
        /\ WF_vars(SuggestionCall(r))
        /\ WF_vars(GuardrailCall(r))
        /\ WF_vars(EndSuperstep(r))

SpecLive == Init /\ [][Next]_vars /\ Fairness

Betas == {{}} \cup {{b} : b \in 0..MaxBeta}

InitGuardrail ==
    /\ InitStore
    /\ InitRuns
    /\ gstate \in {GuardrailState(a, k, b) :
                      a \in Action, k \in RiskAppetite, b \in Betas}
    /\ gout = {}
    /\ http = NoExchange

NextGuardrail == \E ok \in BOOLEAN : EvaluateGuardrail(ok)

SpecGuardrail == InitGuardrail /\ [][NextGuardrail]_vars

\* The risk appetite and time horizon of the requests where the
\* specification varies something else.
PairRisks == {"Low"}
PairHorizons == {"Long-term"}

\* One caller as in Spec, with a provider whose documents vary in every
\* member.
NextFundamentals ==
    \/ \E r \in SequentialRuns, t \in RequestTickers, k \in PairRisks,
          h \in PairHorizons : StartRun(r, t, k, h)
    \/ \E r \in SequentialRuns : EndSuperstep(r)
    \/ \E r \in SequentialRuns : RecentNewsReturn(r)
    \/ \E r \in SequentialRuns : RecentNewsRaise(r)
    \/ \E r \in SequentialRuns : SummarizationReturn(r)
    \/ \E r \in SequentialRuns : SummarizationRaise(r)
    \/ \E r \in SequentialRuns : OverviewGetSelect(r)
    \/ \E r \in SequentialRuns : OverviewGetFinish(r)
    \/ \E r \in SequentialRuns, d \in FundamentalsDocs :
          OverviewToolReturn(r, d)
    \/ \E r \in SequentialRuns : OverviewToolRaise(r)
    \/ \E r \in SequentialRuns, a \in Action : InvestmentSuggestionReturn(r, a)
    \/ \E r \in SequentialRuns : InvestmentSuggestionRaise(r)
    \/ \E r \in SequentialRuns : Guardrail(r, TRUE)
    \/ Tick

SpecFundamentals == Init /\ [][NextFundamentals]_vars

\* Two requests, each served once and possibly in flight at once, each with
\* an agent and a cache object of its own on the one cache file; the
\* requests are for one ticker, in two spellings, the tool answers with a
\* complete document and the observability sink accepts every record.
NextPair ==
    \/ \E r \in Runs, t \in RequestTickers, k \in PairRisks,
          h \in PairHorizons : outcome[r] = NoRun /\ StartRun(r, t, k, h)
    \/ \E r \in Runs : EndSuperstep(r)
    \/ \E r \in Runs : RecentNewsReturn(r)
    \/ \E r \in Runs : RecentNewsRaise(r)
    \/ \E r \in Runs : SummarizationReturn(r)
    \/ \E r \in Runs : SummarizationRaise(r)
    \/ \E r \in Runs : OverviewGetSelect(r)
    \/ \E r \in Runs : OverviewGetFinish(r)
    \/ \E r \in Runs, d \in Docs : OverviewToolReturn(r, d)
    \/ \E r \in Runs : OverviewToolRaise(r)
    \/ \E r \in Runs, a \in Action : InvestmentSuggestionReturn(r, a)
    \/ \E r \in Runs : InvestmentSuggestionRaise(r)
    \/ \E r \in Runs : Guardrail(r, TRUE)
    \/ Tick

SpecPair == Init /\ [][NextPair]_vars


(***************************************************************************)
(* Properties of the workflow, checked under Spec.                         *)
(***************************************************************************)
\* The nodes that run only after node n has finished.
RECURSIVE Descendants(_)
Descendants(n) ==
    LET direct == {e.to : e \in {x \in Edges : n \in x.from}}
    IN  direct \cup UNION {Descendants(m) : m \in direct}

OverrideKeys == {"guardrail_override", "guardrails_override"}

\* C1: investment_suggestion has started only if
\* web_search_results_summarization and get_overview_indicators are both
\* done, and then the state holds the news summary and the overview.
C1_JoinWaitsForBoth ==
    \A r \in Runs :
        node[r]["investment_suggestion"] # "idle" =>
            /\ node[r]["web_search_results_summarization"] = "done"
            /\ node[r]["get_overview_indicators"] = "done"
            /\ {"recent_news_summary_result", "overview"}
                   \subseteq DOMAIN rstate[r]

\* C1 witness: investment_suggestion is running in a run whose
\* get_overview_indicators finished after recent_news.
C1_Witness ==
    \E r \in Runs :
        /\ node[r]["investment_suggestion"] = "running"
        /\ hist[r].order = << "recent_news", "get_overview_indicators",
                              "web_search_results_summarization" >>

\* C2: when a node has failed, the run has failed with that node's error,
\* it returned no state, and no node that depends on the failed node has
\* run.
C2_FailFast ==
    \A r \in Runs : \A n \in Nodes :
        node[r][n] = "failed" =>
            /\ outcome[r] = [status |-> "failed", error |-> n, result |-> {}]
            /\ \A m \in Descendants(n) : node[r][m] = "idle"

\* C2 witness: recent_news failed after get_overview_indicators had
\* finished, and the run failed with the error of recent_news.
C2_Witness ==
    \E r \in Runs :
        /\ node[r]["recent_news"] = "failed"
        /\ node[r]["get_overview_indicators"] = "done"
        /\ outcome[r].status = "failed"
        /\ outcome[r].error = "recent_news"

\* C4: when the guardrail triggered, the state ainvoke returns holds the
\* override, with action Not Buy and a reason.
C4_OverrideInFinalState ==
    \A r \in Runs :
        (outcome[r].status = "done" /\ hist[r].triggered = {TRUE}) =>
            \A res \in outcome[r].result :
                \E k \in OverrideKeys \cap DOMAIN res :
                    /\ res[k].suggested_action = "Not Buy"
                    /\ res[k].reason = failure_reason

\* C5: when the guardrail did not trigger, the state ainvoke returns holds
\* no override and the action recommended by investment_suggestion, and the
\* response built from it carries that action and no override.
C5_PassThrough ==
    \A r \in Runs :
        (outcome[r].status = "done" /\ hist[r].triggered = {FALSE}) =>
            \A res \in outcome[r].result :
                /\ OverrideKeys \cap DOMAIN res = {}
                /\ {res["response"].suggested_action} = hist[r].recommended
                /\ ServiceResponse(res).status_code = 200
                /\ {ServiceResponse(res).suggested_action}
                       = hist[r].recommended
                /\ ServiceResponse(res).guardrail_override = {}

\* C5 witness: a run with Low risk appetite, beta 0.6 and recommendation
\* Buy is done and the guardrail did not trigger.
C5_Witness ==
    \E r \in Runs :
        /\ outcome[r].status = "done"
        /\ hist[r].triggered = {FALSE}
        /\ hist[r].recommended = {"Buy"}
        /\ \E res \in outcome[r].result :
              /\ res["risk_appetite"] = "Low"
              /\ res["overview"].beta = {6}
              /\ res["response"].suggested_action = "Buy"

\* The run's overview_cache.get has returned.
Looked(r) ==
    /\ rstate[r] # << >>
    /\ ov[r].pc \in {"await", "end"}

\* C12: when overview_cache.get returned a payload, the node builds the
\* overview from that payload, never calls the tool and stores nothing; when
\* it returned None the node calls the tool exactly once and, once the tool
\* has answered, has stored the answer under the ticker and builds the
\* overview from it.
C12_CacheProtocol ==
    \A r \in Runs :
        Looked(r) =>
            /\ ov[r].cached # {} =>
                  /\ ov[r].calls = 0
                  /\ ov[r].stored = << >>
                  /\ ov[r].response = ov[r].cached
            /\ ov[r].cached = {} =>
                  /\ ov[r].calls = 1
                  /\ Len(ov[r].stored) <= 1
                  /\ ov[r].response = {ov[r].stored[i] : i \in DOMAIN ov[r].stored}

(***************************************************************************)
(* Properties of get_overview_indicators over the provider's documents,    *)
(* checked under SpecFundamentals.                                         *)
(***************************************************************************)
\* The overview the node of run r has returned, if it has.
OverviewIn(r) ==
    {w.patch["overview"] :
        w \in {x \in pending[r] : x.node = "get_overview_indicators"}}
      \cup (IF "overview" \in DOMAIN rstate[r]
            THEN {rstate[r]["overview"]} ELSE {})

\* The number, in tenths, that a numeric member's text denotes, if any.
Denotes(text) ==
    CASE text = <<"9">> -> {90}
      [] text = <<"1", ".", "2">> -> {12}
      [] text = <<"3", ".", "0">> -> {30}
      [] text = <<"0", ".", "1">> -> {1}
      [] text = <<"2", ".", "5">> -> {25}
      [] text = <<"0", ".", "6">> -> {6}
      [] text = <<"1", ".", "7">> -> {17}
      [] OTHER -> {}

\* C13: when the node built from a document that has every member, the node
\* is done, the run has not failed in it, and every numeric field of the
\* overview is absent where the member is 'None' or not a number and is the
\* number where the member is one.
C13_NumericLeniency ==
    \A r \in Runs : \A doc \in ov[r].response :
        DOMAIN doc = DOMAIN DocLowBeta =>
            /\ node[r]["get_overview_indicators"] = "done"
            /\ outcome[r].error # "get_overview_indicators"
            /\ OverviewIn(r) # {} \/ outcome[r].status = "failed"
            /\ \A o \in OverviewIn(r) : \A f \in DOMAIN NumericFields :
                  o[NumericFields[f]] = Denotes(doc[f])

\* C13 witness: a run is done whose document had 'None' as PERatio, '-' as
\* DividendPerShare and '2.5' as EPS, with these fields absent, absent and
\* 2.5.
C13_Witness ==
    \E r \in Runs : \E doc \in ov[r].response :
        /\ outcome[r].status = "done"
        /\ doc["PERatio"] = NoneText
        /\ doc["DividendPerShare"] = <<"-">>
        /\ doc["EPS"] = <<"2", ".", "5">>
        /\ \E res \in outcome[r].result :
              /\ res["overview"].pe_ratio = {}
              /\ res["overview"].dividend_per_share = {}
              /\ res["overview"].eps = {25}

\* The tool call of run r failed.
ToolFailed(r) ==
    /\ ov[r].pc = "end"
    /\ ov[r].calls = 1
    /\ ov[r].stored = << >>

\* C14: get_overview_indicators has failed only if the tool call failed or
\* the document lacks Description, Sector or Industry; with these three
\* present the node is done and a numeric member that is missing gives an
\* absent field.
C14_FailsOnlyOnDescriptive ==
    \A r \in Runs :
        /\ node[r]["get_overview_indicators"] = "failed" =>
              \/ ToolFailed(r)
              \/ \E doc \in ov[r].response : ~(DescriptiveFields \subseteq DOMAIN doc)
        /\ \A doc \in ov[r].response :
              DescriptiveFields \subseteq DOMAIN doc =>
                  /\ node[r]["get_overview_indicators"] = "done"
                  /\ \A o \in OverviewIn(r) :
                        \A f \in DOMAIN NumericFields \ DOMAIN doc :
                            o[NumericFields[f]] = {}

(***************************************************************************)
(* Properties of two requests in flight at once, checked under SpecPair.   *)
(***************************************************************************)
\* The run's overview_cache.get has returned None.
Missed(r) ==
    /\ rstate[r] # << >>
    /\ ov[r].pc \in {"await", "end"}
    /\ ov[r].cached = {}

\* C11: when two runs both missed the cache for one ticker, both have called
\* the tool, once each; and when the tool has answered both, both
\* get_overview_indicators nodes are done and the store holds exactly one
\* entry of the ticker, with the payload of the later set.
C11_ConcurrentMisses ==
    \A r, q \in Runs :
        ( /\ r # q
          /\ Missed(r)
          /\ Missed(q)
          /\ SameTicker(rstate[r]["ticker_symbol"], rstate[q]["ticker_symbol"]) )
        => /\ ov[r].calls = 1
           /\ ov[q].calls = 1
           /\ (ov[r].stored # << >> /\ ov[q].stored # << >>) =>
                 /\ node[r]["get_overview_indicators"] = "done"
                 /\ node[q]["get_overview_indicators"] = "done"
                 /\ \E row \in table, w \in written :
                       /\ RowsOf(table, rstate[r]["ticker_symbol"]) = {row}
                       /\ SameTicker(w.key, rstate[r]["ticker_symbol"])
                       /\ row.data = json_dumps(w.data)
                       /\ w.data \in {ov[r].stored[1], ov[q].stored[1]}

\* C11 witness: two runs missed the cache at the same time, the tool
\* answered them with different documents, and the store holds one entry.
C11_Witness ==
    /\ now = ttl_days
    /\ Missed("r1")
    /\ Missed("r2")
    /\ ov["r1"].stored = << DocLowBeta >>
    /\ ov["r2"].stored = << DocHighBeta >>
    /\ Cardinality(table) = 1

\* C15: the response of a run carries a suggested action only if all five
\* nodes are done; a run in which some node is not done is answered with a
\* failure that carries no part of a recommendation.
C15_NoPartialResult ==
    \A r \in Runs :
        Ended(r) =>
            LET resp == generate_strategy(outcome[r])
            IN  /\ "suggested_action" \in DOMAIN resp =>
                      \A n \in Nodes : node[r][n] = "done"
                /\ (\E n \in Nodes : node[r][n] # "done") =>
                      /\ resp.status_code = 500
                      /\ DOMAIN resp \cap {"suggested_action", "reasoning",
                                           "sources", "guardrail_override"} = {}

\* C15 witness: a run failed in investment_suggestion, after the news
\* summary and the overview were in the state, and is answered with a
\* failure.
C15_Witness ==
    \E r \in Runs :
        /\ outcome[r].status = "failed"
        /\ node[r]["investment_suggestion"] = "failed"
        /\ {"recent_news_summary_result", "overview"} \subseteq DOMAIN rstate[r]
        /\ generate_strategy(outcome[r]).status_code = 500

\* C16: when the guardrail triggered, the response has a status other than
\* 2xx and carries the recommended action, its reasoning and an override
\* with an action and a reasoning; when it did not trigger, the status is
\* 2xx and there is no override.
C16_OverrideAtBoundary ==
    \A r \in Runs :
        outcome[r].status = "done" =>
            LET resp == generate_strategy(outcome[r])
            IN  /\ hist[r].triggered = {TRUE} =>
                      /\ resp.status_code \notin 200..299
                      /\ {"suggested_action", "reasoning", "guardrail_override"}
                             \subseteq DOMAIN resp
                      /\ {resp.suggested_action} = hist[r].recommended
                      /\ resp.guardrail_override # {}
                /\ hist[r].triggered = {FALSE} =>
                      /\ resp.status_code \in 200..299
                      /\ resp.guardrail_override = {}

\* C17: recent_news and get_overview_indicators both start when the run
\* starts, and neither waits for the other: while recent_news is running it
\* can return, and while get_overview_indicators is running it can take its
\* next step, whatever the other one is doing.
C17_BranchesConcurrent ==
    \A r \in Runs :
        /\ outcome[r].status # "none" =>
              /\ node[r]["recent_news"] # "idle"
              /\ node[r]["get_overview_indicators"] # "idle"
        /\ (Running(r) /\ node[r]["recent_news"] = "running") =>
              ENABLED RecentNewsReturn(r)
        /\ (Running(r) /\ node[r]["get_overview_indicators"] = "running") =>
              ENABLED ( \/ OverviewGetSelect(r)
                        \/ OverviewGetFinish(r)
                        \/ \E d \in ToolDocs : OverviewToolReturn(r, d) )

\* C17 witness: both nodes are in progress, get_overview_indicators awaiting
\* the tool, and either of them can be the first to complete.
C17_Witness ==
    \E r \in Runs :
        /\ node[r]["recent_news"] = "running"
        /\ node[r]["get_overview_indicators"] = "running"
        /\ ov[r].pc = "await"
        /\ hist[r].order = << >>
        /\ ENABLED RecentNewsReturn(r)
        /\ ENABLED (\E d \in ToolDocs : OverviewToolReturn(r, d))

\* The node that returns each key of the state.
Owner ==
    [ recent_news_results |-> "recent_news",
      recent_news_summary_result |-> "web_search_results_summarization",
      overview |-> "get_overview_indicators",
      response |-> "investment_suggestion",
      guardrails_override |-> "risk_appetite_beta_guardrail" ]

\* The keys ainvoke is given, and the trace id it adds.
InitialKeys == {"ticker_symbol", "risk_appetite", "time_horizon", "trace_id"}

\* C18: while a run is going on, a key that is in its state keeps its value,
\* a key that enters the state was returned by the node that owns it, and a
\* node returns no key of the state that another node owns.
C18_WriteOnce ==
    [][ \A r \in Runs :
          Running(r) =>
              /\ \A k \in DOMAIN rstate[r] :
                    /\ k \in DOMAIN rstate'[r]
                    /\ rstate'[r][k] = rstate[r][k]
              /\ \A k \in DOMAIN rstate'[r] \ DOMAIN rstate[r] :
                    /\ k \in DOMAIN Owner
                    /\ \E w \in pending[r] :
                          w.node = Owner[k] /\ k \in DOMAIN w.patch
              /\ \A w \in pending'[r] :
                    \A k \in DOMAIN w.patch \cap AdvisorStateKeys :
                        k \in DOMAIN Owner /\ Owner[k] = w.node
              /\ \A res \in outcome'[r].result : res = rstate'[r]
      ]_vars

\* C18 witness: a run is done in which the guardrail triggered; its state
\* holds the four values the nodes returned, the response still with Buy.
C18_Witness ==
    \E r \in Runs :
        /\ outcome[r].status = "done"
        /\ hist[r].triggered = {TRUE}
        /\ { "recent_news_results", "recent_news_summary_result", "overview",
              "response" } \subseteq DOMAIN rstate[r]
        /\ rstate[r]["response"].suggested_action = "Buy"

\* The keys of the state each node subscripts.
Reads ==
    [ recent_news |-> {"ticker_symbol"},
      web_search_results_summarization |->
          {"recent_news_results", "ticker_symbol"},
      get_overview_indicators |-> {"ticker_symbol"},
      investment_suggestion |->
          { "recent_news_summary_result", "ticker_symbol", "risk_appetite",
            "time_horizon", "overview" },
      risk_appetite_beta_guardrail |->
          { "response", "trace_id", "risk_appetite", "overview",
            "ticker_symbol" } ]

\* The nodes that node n runs after.
Ancestors(n) == {m \in Nodes : n \in Descendants(m)}

\* C19: every key a running node reads is in the state, and it is a key
\* ainvoke was given or one whose owner is done and is a node the running
\* node depends on.
C19_ReadsPopulated ==
    \A r \in Runs : \A n \in Nodes :
        node[r][n] = "running" =>
            \A k \in Reads[n] :
                /\ k \in DOMAIN rstate[r]
                /\ \/ k \in InitialKeys
                   \/ /\ Owner[k] \in Ancestors(n)
                      /\ node[r][Owner[k]] = "done"

\* C19 witness: the guardrail is running and the state holds the response
\* and the overview.
C19_Witness ==
    \E r \in Runs :
        /\ node[r]["risk_appetite_beta_guardrail"] = "running"
        /\ {"response", "overview"} \subseteq DOMAIN rstate[r]

\* What belongs to one run.
RunView(r) ==
    <<rstate[r], node[r], tasks[r], pending[r], ov[r], outcome[r], hist[r]>>

\* C20: the runs that have started have different trace ids, and a step
\* that changes what belongs to one run leaves what belongs to every other
\* run as it is.
C20_RunsIsolated ==
    [][ /\ \A r, q \in Runs :
              (r # q /\ rstate'[r] # << >> /\ rstate'[q] # << >>)
                  => rstate'[r]["trace_id"] # rstate'[q]["trace_id"]
        /\ \A r \in Runs :
              RunView(r)' # RunView(r) =>
                  \A q \in Runs \ {r} : RunView(q)' = RunView(q)
      ]_vars

\* C20 witness: two runs are in flight at once, with different trace ids,
\* one with the overview in its state and the other without.
C20_Witness ==
    /\ Running("r1")
    /\ Running("r2")
    /\ rstate["r1"]["trace_id"] # rstate["r2"]["trace_id"]
    /\ "overview" \in DOMAIN rstate["r1"]
    /\ "overview" \notin DOMAIN rstate["r2"]

(***************************************************************************)
(* Properties of the guardrail, checked under SpecGuardrail.               *)
(***************************************************************************)
\* C3: the guardrail returns an override exactly when the action is Buy,
\* the risk appetite is Low and a beta is present and greater than 1.0.
C3_GuardrailRule ==
    \A p \in gout :
        ("guardrail_override" \in DOMAIN p) <=>
            /\ gstate.response.suggested_action = "Buy"
            /\ gstate.risk_appetite = "Low"
            /\ \E b \in gstate.overview.beta : b > 10

\* C21: the guardrail can be evaluated on every action, risk appetite and
\* beta, whether or not the sink takes the record, and what it yields is
\* never an exception: it is the empty dict or an override with Not Buy.
C21_GuardrailTotal ==
    /\ gout = {} => \A ok \in BOOLEAN : ENABLED EvaluateGuardrail(ok)
    /\ \A p \in gout :
          /\ "raised" \notin DOMAIN p
          /\ \/ p = << >>
             \/ /\ DOMAIN p = {"guardrail_override"}
                /\ p.guardrail_override.suggested_action = "Not Buy"

\* C21 witness: Buy and Low with no beta was evaluated and yielded the empty
\* dict.
C21_Witness ==
    /\ gstate.response.suggested_action = "Buy"
    /\ gstate.risk_appetite = "Low"
    /\ gstate.overview.beta = {}
    /\ gout = {<< >>}

\* C3 witness: Buy, Low and beta 1.5 was evaluated and the guardrail
\* triggered.
C3_Witness ==
    /\ gstate.response.suggested_action = "Buy"
    /\ gstate.risk_appetite = "Low"
    /\ gstate.overview.beta = {15}
    /\ \E p \in gout : "guardrail_override" \in DOMAIN p

(***************************************************************************)
(* Properties of the cache, checked under SpecCache.                       *)
(***************************************************************************)
\* Days between a stored timestamp and time t.
Age(row, t) == t - (row.cached_at[1] * 10 + row.cached_at[2])

\* C6: a get(key) that starts after set(key, payload), with no set, clear or
\* DELETE on that key in between and at most TTL days after the set,
\* returns exactly the payload that was written.
C6_RoundTrip ==
    last.op = "get" =>
        \A w \in last.args :
            (w.key = last.key /\ last.at - w.at <= ttl_days)
                => last.result = {w.data}

\* C6 witness: a get exactly TTL days after the set of the same key returned
\* the payload.
C6_Witness ==
    /\ last.op = "get"
    /\ \E w \in last.args :
          /\ w.key = last.key
          /\ last.at - w.at = ttl_days
          /\ last.result = {w.data}

\* C7: a get that fetched an entry older than TTL returns absent and the
\* store holds no entry of the key right after it; a get that fetched an
\* entry of age at most TTL returns it and leaves the store as it was.
C7_LazyExpiry ==
    last.op = "get" =>
        \A r \in last.fetched :
            /\ Age(r, last.at) > ttl_days
                  => (last.result = {} /\ last.after = {})
            /\ Age(r, last.at) <= ttl_days
                  => (last.result = {json_loads(r.data)}
                      /\ last.after = last.before)

\* C7 witness: a get fetched an entry older than TTL, returned absent and
\* left no entry of the key.
C7_Witness ==
    /\ last.op = "get"
    /\ \E r \in last.fetched : Age(r, last.at) > ttl_days
    /\ last.result = {}
    /\ last.after = {}

\* C8: keys are case-insensitive: a get under a key that differs from the
\* key of the latest set only in letter case returns the payload written,
\* and a delete under any case variant leaves no entry of the ticker.
C8_CaseInsensitive ==
    /\ last.op = "get" =>
          \A w \in last.args :
              (SameTicker(w.key, last.key) /\ last.at - w.at <= ttl_days)
                  => last.result = {w.data}
    /\ last.op = "clear" => last.after = {}

\* C8 witness: a get under another case variant of the key that was set
\* returned the payload.
C8_Witness ==
    /\ last.op = "get"
    /\ \E w \in last.args :
          /\ w.key # last.key
          /\ SameTicker(w.key, last.key)
          /\ last.result = {w.data}

\* C9: the store never holds two entries whose keys differ only in case, and
\* right after set(k, b) the one entry of k holds b and the time of that
\* write.
C9_Upsert ==
    /\ \A r1, r2 \in table :
          SameTicker(r1.ticker_symbol, r2.ticker_symbol) => r1 = r2
    /\ last.op = "set" =>
          /\ Cardinality(last.after) = 1
          /\ \A r \in last.after :
                /\ {json_loads(r.data)} = last.args
                /\ Age(r, last.at) = 0

\* C9 witness: a set replaced an entry of the same ticker that held another
\* payload and an earlier timestamp.
C9_Witness ==
    /\ last.op = "set"
    /\ last.before # {}
    /\ \A r \in last.before :
          /\ json_loads(r.data) \notin last.args
          /\ Age(r, last.at) > 0
    /\ Cardinality(last.after) = 1

\* C10: single-key operations are atomic: a get that found an expired entry
\* never deletes a fresh entry that a concurrent set has written, so every
\* entry a get removes is older than TTL.
C10_GetDeletesOnlyExpired ==
    last.op = "get" =>
        \A r \in last.before \ last.after : Age(r, last.at) > ttl_days

(***************************************************************************)
(* C22: the audit record of a guardrail execution.                         *)
(***************************************************************************)
GuardrailNode == "risk_appetite_beta_guardrail"

\* The guardrail's condition, read from the state of run r.
TriggeredIn(r) ==
    /\ rstate[r]["response"].suggested_action = "Buy"
    /\ rstate[r]["risk_appetite"] = "Low"
    /\ \E b \in rstate[r]["overview"].beta : b > 10

\* C22: a guardrail execution that returned has sent exactly one record to
\* the sink, whether or not the sink took it; the record carries the trace
\* id of the run, the result failed exactly when the guardrail triggered and
\* a reason exactly when it triggered; before the node returns nothing is
\* sent, and what the sink holds carries the trace id of a started run.
C22_OneAuditRecord ==
    /\ \A r \in Runs :
          IF node[r][GuardrailNode] = "done"
          THEN /\ Len(hist[r].issued) = 1
               /\ LET rec == hist[r].issued[1]
                  IN  /\ rec.entity_id = rstate[r]["trace_id"]
                      /\ rec.result = "failed" <=> TriggeredIn(r)
                      /\ rec.result = "passed" <=> ~TriggeredIn(r)
                      /\ rec.reason # {} <=> TriggeredIn(r)
          ELSE hist[r].issued = << >>
    /\ \A rec \in audit : rec.entity_id \in 1..(nextTrace - 1)

\* C22 witness: a triggered guardrail returned, its record has the result
\* failed and a reason, and the sink did not take it.
C22_Witness ==
    \E r \in Runs :
        /\ node[r][GuardrailNode] = "done"
        /\ TriggeredIn(r)
        /\ hist[r].issued[1].result = "failed"
        /\ \A rec \in audit : rec.entity_id # rstate[r]["trace_id"]

(***************************************************************************)
(* C23: no retry.                                                          *)
(***************************************************************************)
\* The number of times node n stands in the completion order of a run.
Completions(order, n) == Cardinality({i \in 1..Len(order) : order[i] = n})

\* C23: within one run every node is executed at most once and completes at
\* most once, the fundamentals provider is called at most once, and once a
\* node has failed nothing of the run executes again: no node is in
\* progress and the failed node was executed once.
C23_NoRetry ==
    \A r \in Runs :
        /\ \A n \in Nodes :
              /\ hist[r].started[n] <= 1
              /\ Completions(hist[r].order, n) <= hist[r].started[n]
              /\ node[r][n] # "idle" => hist[r].started[n] = 1
        /\ ov[r].calls <= 1
        /\ Len(ov[r].stored) <= ov[r].calls
        /\ outcome[r].status = "failed" =>
              /\ hist[r].started[outcome[r].error] = 1
              /\ \A n \in Nodes : node[r][n] # "running"
              /\ ~ENABLED EndSuperstep(r)

\* C23 witness: the fundamentals provider was called once and failed, the
\* run has failed, and the node was executed once.
C23_Witness ==
    \E r \in Runs :
        /\ outcome[r].status = "failed"
        /\ outcome[r].error = "get_overview_indicators"
        /\ ov[r].calls = 1
        /\ ov[r].stored = << >>
        /\ hist[r].started["get_overview_indicators"] = 1

(***************************************************************************)
(* C24: configuration errors.                                              *)
(***************************************************************************)
\* A credential the request needs is missing: in production the client has
\* to send both keys, locally the environment may supply them.
CredentialMissing(h) ==
    IF h.env.ENVIRONMENT = "production"
    THEN h.body.tavily_api_key = {} \/ h.body.openai_api_key = {}
    ELSE \/ h.body.tavily_api_key = {} /\ h.env.TAVILY_API_KEY = {}
         \/ h.body.openai_api_key = {} /\ h.env.OPENAI_API_KEY = {}

\* C24: a request with a missing credential is answered with 500 in local
\* mode and with 400 in production mode, and nothing ran for it: no run was
\* started and no cache operation was performed.
C24_ConfigErrorBeforeRun ==
    (http.pc # "none" /\ CredentialMissing(http)) =>
        /\ http.pc = "responded"
        /\ http.status_code =
              IF http.env.ENVIRONMENT = "production" THEN 400 ELSE 500
        /\ \A r \in Runs : outcome[r] = NoRun
        /\ nextTrace = 1
        /\ ops = 0

(***************************************************************************)
(* C25: delete and clear.                                                  *)
(***************************************************************************)
\* C25: a delete removes the entry of the normalized key it is given and
\* leaves every other entry as it was, for every key, the empty string
\* included; a clear without a key removes every entry.
C25_DeleteExactlyKey ==
    /\ last.op = "clear" =>
          last.store_after =
              {r \in last.store : r.ticker_symbol # upper(last.key)}
    /\ last.op = "clear_all" => last.store_after = {}

(***************************************************************************)
(* C26: cleanup_expired.                                                   *)
(***************************************************************************)
\* C26: cleanup_expired removes the entries older than TTL and no other:
\* what it leaves are the entries of age at most TTL, every entry it leaves
\* is one a get at that moment returns, and every entry it removes is one a
\* get at that moment reports as a miss.
C26_CleanupAgreesWithGet ==
    last.op = "cleanup" =>
        /\ last.after = {r \in last.before : Age(r, last.at) <= ttl_days}
        /\ \A r \in last.after :
              /\ ~get_expired(r, last.at)
              /\ get_result({r}, last.at) = {json_loads(r.data)}
        /\ \A r \in last.before \ last.after :
              /\ get_expired(r, last.at)
              /\ get_result({r}, last.at) = {}

\* C26 witness: a cleanup removed an entry older than TTL and left another.
C26_Witness ==
    /\ last.op = "cleanup"
    /\ \E r \in last.before \ last.after : Age(r, last.at) = ttl_days + 1
    /\ last.after # {}

(***************************************************************************)
(* C27: the order of completion.                                           *)
(***************************************************************************)
\* Node a stands before node b in the completion order.
Before(order, a, b) ==
    \E i, j \in 1..Len(order) : order[i] = a /\ order[j] = b /\ i < j

\* C27: a run that returned its final state has completed all five nodes,
\* each once: recent_news before web_search_results_summarization, that
\* node and get_overview_indicators before investment_suggestion,
\* investment_suggestion before the guardrail, and the guardrail last; and
\* in a run still going, a node that completed did so after the nodes it
\* depends on.
C27_OrderFollowsEdges ==
    \A r \in Runs :
        LET order == hist[r].order
        IN  /\ outcome[r].status = "done" =>
                  /\ Len(order) = 5
                  /\ order[5] = GuardrailNode
                  /\ node[r][GuardrailNode] = "done"
                  /\ Before(order, "recent_news",
                            "web_search_results_summarization")
                  /\ Before(order, "web_search_results_summarization",
                            "investment_suggestion")
                  /\ Before(order, "get_overview_indicators",
                            "investment_suggestion")
                  /\ Before(order, "investment_suggestion", GuardrailNode)
            /\ \A i \in 1..Len(order) :
                  /\ order[i] = "web_search_results_summarization" =>
                        Before(order, "recent_news", order[i])
                  /\ order[i] = "investment_suggestion" =>
                        /\ Before(order, "web_search_results_summarization",
                                  order[i])
                        /\ Before(order, "get_overview_indicators", order[i])
                  /\ order[i] = GuardrailNode =>
                        Before(order, "investment_suggestion", order[i])

\* C27 witness: a run returned its final state after get_overview_indicators
\* had completed before recent_news.
C27_Witness ==
    \E r \in Runs :
        /\ outcome[r].status = "done"
        /\ hist[r].order =
              << "get_overview_indicators", "recent_news",
                 "web_search_results_summarization", "investment_suggestion",
                 "risk_appetite_beta_guardrail" >>

(***************************************************************************)
(* C28: the two branches and the supersteps of the executor.               *)
(***************************************************************************)
\* C28: web_search_results_summarization can start as soon as recent_news
\* has completed, whether or not get_overview_indicators has completed: in
\* a run in progress whose recent_news is done and whose summarization has
\* not started, the step that starts it can be taken.
C28_SummarizationStartsAfterNews ==
    \A r \in Runs :
        ( /\ Running(r)
          /\ node[r]["recent_news"] = "done"
          /\ node[r]["web_search_results_summarization"] = "idle" )
            => ENABLED EndSuperstep(r)

\* C28, as the executor runs the graph: web_search_results_summarization
\* has started only if recent_news and get_overview_indicators are both
\* done; it is never in progress together with get_overview_indicators, and
\* while get_overview_indicators is in progress the step that starts it
\* cannot be taken.
C28_SummarizationWaitsForSuperstep ==
    \A r \in Runs :
        /\ node[r]["web_search_results_summarization"] # "idle" =>
              /\ node[r]["recent_news"] = "done"
              /\ node[r]["get_overview_indicators"] = "done"
        /\ ~( /\ node[r]["web_search_results_summarization"] = "running"
              /\ node[r]["get_overview_indicators"] = "running" )
        /\ node[r]["get_overview_indicators"] = "running" =>
              ~ENABLED EndSuperstep(r)

\* C28 witness: recent_news completed first, get_overview_indicators after
\* it, and only then is web_search_results_summarization in progress.
C28_Witness ==
    \E r \in Runs :
        /\ node[r]["web_search_results_summarization"] = "running"
        /\ hist[r].order = << "recent_news", "get_overview_indicators" >>

(***************************************************************************)
(* C29: a failure in one of the two branches.                              *)
(***************************************************************************)
Branches ==
    { "recent_news", "web_search_results_summarization",
      "get_overview_indicators" }

\* C29: a run in which a node of one of the two branches failed has failed
\* with the error of that node, the only node that failed, and returned
\* nothing, also when the other branch had finished before; no node after
\* the join ran; and the entry get_overview_indicators wrote to the cache
\* in that run is still in the table, with the payload it wrote.
C29_FirstFailureWins ==
    \A r \in Runs :
        (outcome[r].status = "failed" /\ outcome[r].error \in Branches) =>
            /\ outcome[r].result = {}
            /\ {n \in Nodes : node[r][n] = "failed"} = {outcome[r].error}
            /\ node[r]["investment_suggestion"] = "idle"
            /\ node[r][GuardrailNode] = "idle"
            /\ generate_strategy(outcome[r]).status_code = 500
            /\ ov[r].stored # << >> =>
                  \E row \in table :
                      /\ row.ticker_symbol = upper(rstate[r]["ticker_symbol"])
                      /\ json_loads(row.data) = ov[r].stored[1]

\* C29 witness: get_overview_indicators finished first and wrote its entry,
\* then the news branch failed; the run has failed and the entry is in the
\* table.
C29_Witness ==
    \E r \in Runs :
        /\ outcome[r].status = "failed"
        /\ outcome[r].error = "recent_news"
        /\ node[r]["get_overview_indicators"] = "done"
        /\ ov[r].stored # << >>
        /\ \E row \in table :
              row.ticker_symbol = upper(rstate[r]["ticker_symbol"])

(***************************************************************************)
(* C30: termination.                                                       *)
(***************************************************************************)
\* A node in progress leaves that status by returning or raising, or by
\* being cancelled when another node of the run raised: never by the clock.
NoTimeout ==
    \A r \in Runs : \A n \in Nodes :
        (node[r][n] = "running" /\ node'[r][n] # "running") =>
            \/ /\ node'[r][n] \in {"done", "failed"}
               /\ now' = now
            \/ /\ node'[r][n] = "cancelled"
               /\ outcome'[r].status = "failed"
               /\ outcome'[r].error # n
               /\ now' = now

\* C30: when every call returns or fails, a run that has started ends, with
\* the state after the guardrail or with a failure; and a run ends with a
\* state only when every node has returned: while a call has not returned
\* the run has not completed, however far the clock advances.
C30_Termination ==
    /\ \A r \in Runs : Running(r) ~> Ended(r)
    /\ [](\A r \in Runs :
             outcome[r].status = "done" =>
                 /\ \A n \in Nodes : node[r][n] = "done"
                 /\ Len(hist[r].order) = 5)
    /\ [](\A r \in Runs :
             (\E n \in Nodes : node[r][n] = "running") => Running(r))
    /\ [][NoTimeout]_vars

\* C30 witness: a run is in progress with a call that has not returned,
\* after the clock has advanced past the start of the run.
C30_Witness ==
    \E r \in Runs :
        /\ Running(r)
        /\ node[r]["recent_news"] = "running"
        /\ node[r]["get_overview_indicators"] = "done"
        /\ now > ttl_days

(***************************************************************************)
(* C31: the provider is called exactly on a miss.                          *)
(***************************************************************************)
\* C31: once overview_cache.get has returned, the tool has been called if
\* and only if get returned None; when get returned a document, be it the
\* empty one, the tool is not called and the entry is not rewritten: the
\* run has stored nothing.
C31_ProviderIffMiss ==
    \A r \in Runs :
        Looked(r) =>
            /\ ov[r].calls > 0 <=> ov[r].cached = {}
            /\ ov[r].cached # {} => ov[r].stored = << >>

(***************************************************************************)
(* C32: the payload is stored before it is validated.                      *)
(***************************************************************************)
\* A document from which no Overview can be built: a member is missing.
Invalid(doc) == OverviewOf(doc) = {}

\* C32: a run whose tool answered with a document that lacks a member has
\* failed in get_overview_indicators and the document is in the cache; and
\* a run whose overview_cache.get returned such a document does not call
\* the tool and fails in get_overview_indicators.
C32_StoredBeforeValidated ==
    \A r \in Runs :
        /\ (ov[r].stored # << >> /\ Invalid(ov[r].stored[1])) =>
              /\ node[r]["get_overview_indicators"] = "failed"
              /\ outcome[r].status = "failed"
              /\ outcome[r].error = "get_overview_indicators"
              /\ \E row \in table :
                    /\ row.ticker_symbol = upper(rstate[r]["ticker_symbol"])
                    /\ json_loads(row.data) = ov[r].stored[1]
        /\ (Looked(r) /\ \E d \in ov[r].cached : Invalid(d)) =>
              /\ ov[r].calls = 0
              /\ ov[r].stored = << >>
              /\ ov[r].pc = "end"
              /\ node[r]["get_overview_indicators"] = "failed"
              /\ outcome[r].error = "get_overview_indicators"

(***************************************************************************)
(* C33: reads do not extend the life of an entry.                          *)
(***************************************************************************)
\* C33: a get that returned a payload left the whole table as it was, the
\* timestamp of the entry included; the timestamp of an entry is the time
\* of the latest set of its key, whatever number of gets returned it since;
\* and a get that fetched an entry set more than TTL days before returned
\* None.
C33_ReadsDoNotRenew ==
    /\ (last.op = "get" /\ last.result # {}) =>
          last.store_after = last.store
    /\ \A row \in table : \A w \in written :
          SameTicker(w.key, row.ticker_symbol) =>
              fromisoformat(row.cached_at) = w.at
    /\ last.op = "get" =>
          \A w \in last.args : \A r \in last.fetched :
              (json_loads(r.data) = w.data /\ last.at - w.at > ttl_days)
                  => last.result = {}

\* C33 witness: an entry that a get had returned before was fetched by a
\* get more than TTL days after its set, and that get returned None.
C33_Witness ==
    /\ last.op = "get"
    /\ last.result = {}
    /\ last.fetched # {}
    /\ \E w \in last.args : w.hits >= 1 /\ last.at - w.at > ttl_days

(***************************************************************************)
(* C34: a failure of the sink.                                             *)
(***************************************************************************)
\* The sink holds no record of run r: create_guardrails raised, if called.
Refused(r) == \A rec \in audit : rec.entity_id # rstate[r]["trace_id"]

\* What the guardrail node of run r returned, while it waits for the end of
\* the superstep.
GuardrailReturned(r) ==
    {w.patch : w \in {x \in pending[r] : x.node = GuardrailNode}}

\* C34: the guardrail node never fails and never fails the run; when it
\* has returned, what it returned is decided by the guardrail's condition
\* alone, the override when triggered and the empty dict when not, also
\* when the sink refused the record; and a run whose record was refused
\* ends with a state, as it does when the record was taken.
C34_SinkFailureSwallowed ==
    \A r \in Runs :
        /\ node[r][GuardrailNode] # "failed"
        /\ outcome[r].error # GuardrailNode
        /\ \A p \in GuardrailReturned(r) :
              IF TriggeredIn(r)
              THEN p = [guardrail_override |->
                           [suggested_action |-> "Not Buy",
                            reason |-> failure_reason]]
              ELSE p = << >>
        /\ node[r][GuardrailNode] = "done" =>
              /\ Len(hist[r].issued) = 1
              /\ outcome[r].status \in {"running", "done"}
              /\ outcome[r].status = "running" =>
                    /\ GuardrailReturned(r) # {}
                    /\ ENABLED EndSuperstep(r)

\* C34 witness: the sink refused the record of a triggered guardrail, the
\* node returned the override, and the run can end.
C34_Witness ==
    \E r \in Runs :
        /\ node[r][GuardrailNode] = "done"
        /\ Refused(r)
        /\ TriggeredIn(r)
        /\ \E p \in GuardrailReturned(r) : "guardrail_override" \in DOMAIN p
        /\ ENABLED EndSuperstep(r)

(***************************************************************************)
(* C35: the guardrail and the recommendation.                              *)
(***************************************************************************)
\* The response of investment_suggestion in a state is the one the node
\* returned in run r.
ResponseKept(r, state) ==
    /\ "response" \in DOMAIN state
    /\ {state["response"].suggested_action} = hist[r].recommended
    /\ state["response"].reasoning = "why"

\* C35: once the guardrail node has run, triggered or not, the response in
\* the state is the one investment_suggestion returned, the node returned
\* no response of its own, and the state ainvoke returns holds that
\* response and, when the guardrail triggered, the override under a key of
\* its own.
C35_RecommendationUntouched ==
    \A r \in Runs :
        node[r][GuardrailNode] = "done" =>
            /\ ResponseKept(r, rstate[r])
            /\ \A p \in GuardrailReturned(r) : "response" \notin DOMAIN p
            /\ \A res \in outcome[r].result :
                  /\ ResponseKept(r, res)
                  /\ hist[r].triggered = {TRUE} =>
                        \E k \in DOMAIN res \ {"response"} :
                            k \in OverrideKeys
                  /\ hist[r].triggered = {FALSE} =>
                        OverrideKeys \cap DOMAIN res = {}

(***************************************************************************)
(* C36: a request with its credentials.                                    *)
(***************************************************************************)
\* C36: a request whose credentials are available is not answered with an
\* error of the handler's first part: generate_strategy has constructed the
\* WorkflowAgent and gone on to run the graph once for the request.
C36_RequestStartsRun ==
    (http.pc # "none" /\ ~CredentialMissing(http)) =>
        /\ http.pc = "ainvoke"
        /\ http.raised = ""
        /\ http.status_code # 500

(***************************************************************************)
(* C37: the maintenance tool.                                              *)
(***************************************************************************)
\* C37: clear-all with confirmation required and an answer other than y or
\* yes leaves the cache unchanged and returns False; delete-one for a
\* ticker that is not in the cache leaves the cache unchanged and reports
\* it as not found.
C37_CliLeavesCache ==
    /\ last.op = "clear_all_cache" =>
          \A a \in last.args :
              (a.confirm /\ a.answer \notin {<<"y">>, <<"y", "e", "s">>}) =>
                  /\ last.store_after = last.store
                  /\ last.result = {FALSE}
    /\ ( /\ last.op = "delete_ticker"
         /\ \A r \in last.store : ~SameTicker(r.ticker_symbol, last.key) )
          => /\ last.store_after = last.store
             /\ last.result = {<<FALSE, "not found">>}

\* The answer is y or yes in any letter case, with white space around it
\* or not.
SaysYes(a) ==
    \E i, j \in DOMAIN a :
        /\ \A k \in DOMAIN a : (k < i \/ k > j) => a[k] = " "
        /\ LET w == SubSeq(a, i, j)
           IN  \/ Len(w) = 1 /\ w[1] \in {"y", "Y"}
               \/ /\ Len(w) = 3
                  /\ w[1] \in {"y", "Y"}
                  /\ w[2] \in {"e", "E"}
                  /\ w[3] \in {"s", "S"}

\* C37, with the answer as the tool reads it: clear-all with confirmation
\* required and an answer that is not y or yes, in whatever letter case and
\* with or without white space around it, leaves the cache unchanged and
\* returns False; delete-one for a ticker that is not in the cache leaves
\* the cache unchanged, returns False and reports it as not found.
C37_CliLeavesCacheAsRead ==
    /\ last.op = "clear_all_cache" =>
          \A a \in last.args :
              (a.confirm /\ ~SaysYes(a.answer)) =>
                  /\ last.store_after = last.store
                  /\ last.result = {FALSE}
    /\ ( /\ last.op = "delete_ticker"
         /\ \A r \in last.store : ~SameTicker(r.ticker_symbol, last.key) )
          => /\ last.store_after = last.store
             /\ last.result = {<<FALSE, "not found">>}

\* C37 witness: the cache holds an entry, clear-all asked for confirmation
\* and was answered n: the entry is still there and False was returned.
C37_Witness ==
    /\ last.op = "clear_all_cache"
    /\ last.args = {[confirm |-> TRUE, answer |-> <<"n">>]}
    /\ last.store # {}
    /\ table = last.store
    /\ last.result = {FALSE}

====
